---- MODULE Spec2Model ----
(***************************************************************************)
(* Beat Analysis API (backend/main.py): the POST /analyze-audio handler,   *)
(* its key/scale heuristic and its confidence formula.                     *)
(*                                                                         *)
(* Units.  Byte counts are plain integers.  A confidence c is held as the  *)
(* integer c * ConfScale (ConfScale = 4000, so 0.7 is 2800, 0.95 is 3800   *)
(* and (s / 1000) * 0.25 is s for a standard deviation of s Hz).  A        *)
(* duration is the exact fraction [num, den] of the division the code      *)
(* performs.                                                               *)
(***************************************************************************)
EXTENDS Integers, Sequences, FiniteSets, TLC

VARIABLES
    LIBROSA_AVAILABLE,  \* module flag set by the import at process start
    upload,             \* per request: the UploadFile (content_type, size in bytes)
    pc,                 \* per request: position of the handler coroutine
    file_size,          \* per request: local file_size
    content,            \* per request: len(content), the bytes buffered so far
    short_reads,        \* per request: reads that returned fewer bytes than asked
    temp_file_path,     \* per request: local temp_file_path (NoPath until bound)
    created,            \* per request: the name NamedTemporaryFile created (NoPath if none)
    tmpfiles,           \* the temporary files that exist on disk
    inp,                \* per request: what the library calls of the request did
    result,             \* per request: how the handler ended (return or raise)
    chroma_avg,         \* key heuristic: the 12-element average chroma profile
    key_index,          \* key heuristic: local key_index
    scale_type,         \* key heuristic: local scale_type
    detected_key,       \* key heuristic: local detected_key
    correlation,        \* key heuristic: locals major_correlation, minor_correlation
    key_pc,             \* key heuristic: "input" before a run, "done" after it
    key_runs,           \* key heuristic: runs made so far
    first_key,          \* key heuristic: profile and detected_key of the first run
    prev_key,           \* key heuristic: detected_key the latest run overwrote
    std_pair,           \* confidence: two spectral-centroid standard deviations
    conf_pair,          \* confidence: the confidences returned for them
    conf_raw,           \* confidence: the unrounded formula values for them
    conf_done,          \* confidence: whether the formula has been applied
    tempo_in,           \* bpm: the tempo estimate of the beat tracker, in tenths
    bpm_out,            \* bpm: the bpm field of the response
    bpm_done,           \* bpm: whether the response has been built
    feat_pc,            \* extractor: position in extract_all_features
    wave,               \* extractor: the decoded waveform (silent, sr, n samples)
    step_in,            \* extractor: what the library did in the latest family call
    fam_ret,            \* extractor: the dict the latest family call returned
    fam_total,          \* extractor: sum of the sizes of the returned family dicts
    features,           \* extractor: local features of extract_all_features
    feat_out,           \* extractor: how extract_all_features ended
    feat_first,         \* extractor: waveform and keys of the first returned vector
    feat_files,         \* extractor: files given to extract_all_features so far
    files_dict,         \* batch: argument files_dict, paths of 'good' and of 'bad'
    batch_pc,           \* batch: position in extract_features_from_files
    batch_i,            \* batch: index of the loop over the current list
    all_features,       \* batch: local all_features, a row names the file it is of
    all_labels,         \* batch: local all_labels
    batch_failed,       \* batch: paths whose extraction raised
    batch_out,          \* batch: the returned (df, labels)
    attempts,           \* batch: the paths given to extract_all_features, in order
    folders,            \* data: per set, whether it exists and what good/, bad/ hold
    prep_pc,            \* data: position in prepare_data
    found,              \* data: train_files and test_files of prepare_data
    tables,             \* data: (X_train, y_train) and (X_test, y_test)
    prep_out,           \* data: how prepare_data ended
    beats_folder,       \* experiment: self.beats_folder
    train_pc,           \* experiment: position in training and saving
    model_i,            \* experiment: index of the loop over self.models
    train_in,           \* experiment: what the library did for the latest model
    results,            \* experiment: local results of train_and_evaluate_models
    timestamp,          \* experiment: local timestamp of save_results (0: none)
    disk,               \* experiment: the result files written, [folder, name]
    save_in,            \* experiment: the write of save_results that failed (0: none)
    rank_model,         \* ranking: the model the record is stored for
    importance,         \* ranking: model.feature_importances_, one score per column
    rank_record,        \* ranking: results[model_name] after the try block
    rank_done,          \* ranking: whether the record has been stored
    argv,               \* runner: the command-line arguments after the script name
    fs,                 \* runner: per root folder, what exists below it
    cli_pc,             \* runner: position in main
    cli_checked,        \* runner: the folder whose structure main checked
    cli_run,            \* runner: the folder given to run_ml_experiment
    cli_written,        \* runner: the folders result files were written to
    exp_outcome,        \* runner: how run_ml_experiment ended
    exit_status,        \* runner: the exit status of the process (-1: running)
    exp_trained         \* runner: whether train_and_evaluate_models was called

hvars == <<LIBROSA_AVAILABLE, upload, pc, file_size, content, short_reads,
           temp_file_path, created, tmpfiles, inp, result>>
kvars == <<chroma_avg, key_index, scale_type, detected_key, correlation,
           key_pc, key_runs, first_key, prev_key>>
cvars == <<std_pair, conf_pair, conf_raw, conf_done>>
tvars == <<tempo_in, bpm_out, bpm_done>>
fvars == <<feat_pc, wave, step_in, fam_ret, fam_total, features, feat_out,
           feat_first, feat_files>>
bvars == <<files_dict, batch_pc, batch_i, all_features, all_labels,
           batch_failed, batch_out, attempts>>
pvars == <<folders, prep_pc, found, tables, prep_out>>
mvars == <<beats_folder, train_pc, model_i, train_in, results, timestamp,
           disk, save_in>>
rvars == <<rank_model, importance, rank_record, rank_done>>
clvars == <<argv, fs, cli_pc, cli_checked, cli_run, cli_written, exp_outcome,
            exit_status, exp_trained>>
yvars == <<bvars, pvars, mvars, rvars, clvars>>
xvars == <<tvars, fvars, yvars>>
vars == <<hvars, kvars, cvars, xvars>>

----------------------------------------------------------------------------
(* Bounds of the model *)

NumReqs == 2            \* request slots
MaxShortReads == 1      \* short reads allowed per upload
MaxNonZero == 3         \* non-zero pitch classes in a generated profile
MaxEnergy == 2          \* energy levels 0..MaxEnergy of a pitch class
StdStep == 7            \* grid step of the standard deviations, in Hz
MaxStdSteps == 150      \* grid points of the standard deviations
MaxKeyRuns == 3         \* runs of the key heuristic in one behaviour
MaxTempo == 3000        \* largest tempo estimate, in tenths of a BPM
MaxBeats == 2           \* beats and onsets a detector reports
MaxFeatFiles == 2       \* files given to extract_all_features in one behaviour
MaxBatchFiles == 3      \* files in each of the lists 'good' and 'bad'
MaxCols == 3            \* feature columns of X_train
MaxScore == 2           \* importance scores are 0..MaxScore
MaxStamps == 2          \* seconds at which save_results can be called

Reqs == 1..NumReqs
Paths == 1..NumReqs     \* names mkstemp can hand out, one per request suffices

----------------------------------------------------------------------------
(* Program constants *)

MiB == 1024 * 1024
CHUNK_SIZE == 8192
MAX_FILE_SIZE == 50 * 1024 * 1024
PitchClasses == 0..11
key_mapping == <<"C", "C#", "D", "D#", "E", "F", "F#", "G", "G#", "A", "A#", "B">>
ConfScale == 4 * 1000
CONF_BASE == (7 * ConfScale) \div 10
CONF_CAP == (95 * ConfScale) \div 100
FALLBACK_CONFIDENCE == (3 * ConfScale) \div 10
FALLBACK_BPM == 120
FALLBACK_SAMPLE_RATE == 44100

----------------------------------------------------------------------------
(* Exceptions and handler outcomes *)

\* fastapi.HTTPException(status_code, detail); a subclass of Exception
HTTPException(status_code, detail) ==
    [cls |-> "HTTPException", status_code |-> status_code, detail |-> detail]

\* an exception raised by a library call (librosa, numpy, file I/O)
LibraryError(msg) ==
    [cls |-> "Exception", status_code |-> 0, detail |-> msg]

\* str(e): starlette's HTTPException prints "<status_code>: <detail>"
Str(e) ==
    IF e.cls = "HTTPException"
    THEN ToString(e.status_code) \o ": " \o e.detail
    ELSE e.detail

NoException == [cls |-> "none", status_code |-> 0, detail |-> ""]
NoBody == [analysis_method |-> "none"]
NoResult ==
    [kind |-> "none", status |-> 0, detail |-> "", body |-> NoBody,
     cause |-> NoException]

\* the handler returns a dict: FastAPI answers 200 with it
Return(body) ==
    [kind |-> "return", status |-> 200, detail |-> "", body |-> body,
     cause |-> NoException]

\* HTTPException e leaves the handler while it handled cause (raise inside an
\* except clause): FastAPI answers with the status and detail of e
Raise(e, cause) ==
    [kind |-> "raise", status |-> e.status_code, detail |-> e.detail,
     body |-> NoBody, cause |-> cause]

\* variant: the clause forgets the "Audio analysis failed: " prefix
ExceptHandler_noprefix(e) ==
    Raise(HTTPException(500, Str(e)), e)

\* the outer "except Exception as e" clause: it catches every Exception
\* raised in the try block, the HTTPExceptions raised there included
ExceptHandler(e) ==
    Raise(HTTPException(500, "Audio analysis failed: " \o Str(e)), e)

----------------------------------------------------------------------------
(* Uploads *)

NoContentType == [present |-> FALSE, value |-> <<>>]
ContentType(chars) == [present |-> TRUE, value |-> chars]
AUDIO_PREFIX == <<"a", "u", "d", "i", "o", "/">>

\* str.startswith
StartsWith(str, prefix) ==
    /\ Len(str) >= Len(prefix)
    /\ SubSeq(str, 1, Len(prefix)) = prefix

\* variant: the content type is not validated
BadContentType_unchecked(ct) == FALSE

\* not file.content_type or not file.content_type.startswith('audio/')
BadContentType(ct) ==
    \/ ~ct.present
    \/ ct.value = <<>>
    \/ ~StartsWith(ct.value, AUDIO_PREFIX)

ContentTypes ==
    { NoContentType,
      ContentType(<<>>),
      ContentType(<<"a", "u", "d", "i", "o", "/", "w", "a", "v">>),
      ContentType(<<"a", "u", "d", "i", "o", "/">>),
      ContentType(<<"a", "u", "d", "i", "o">>),
      ContentType(<<"t", "e", "x", "t", "/", "p", "l", "a", "i", "n">>),
      ContentType(<<"x", "a", "u", "d", "i", "o", "/", "w", "a", "v">>) }

UploadSizes ==
    { 0, 1, 2 * MiB, MAX_FILE_SIZE, MAX_FILE_SIZE + 1,
      MAX_FILE_SIZE + 2 * CHUNK_SIZE }

\* byte counts a read may return short of what was asked for
ShortSizes == { 1, CHUNK_SIZE \div 2 }

Uploads == [content_type : ContentTypes, size : UploadSizes]
NoUpload == [content_type |-> NoContentType, size |-> 0]

----------------------------------------------------------------------------
(* Key/scale heuristic *)

\* variant: the last maximum instead of the first
Argmax_last(a) ==
    CHOOSE k \in PitchClasses :
        /\ \A j \in PitchClasses : a[j] <= a[k]
        /\ \A j \in PitchClasses : j > k => a[j] < a[k]

RECURSIVE ArgmaxFrom(_, _, _)
ArgmaxFrom(a, i, best) ==
    IF i > 11 THEN best
    ELSE ArgmaxFrom(a, i + 1, IF a[i] > a[best] THEN i ELSE best)

\* np.argmax: scans the array and keeps the first maximum
Argmax(a) ==
    ArgmaxFrom(a, 1, 0)

\* np.roll(a, shift)
Roll(a, shift) == [i \in PitchClasses |-> a[(i - shift) % 12]]

RECURSIVE SumTo(_, _)
SumTo(a, i) == IF i < 0 THEN 0 ELSE a[i] + SumTo(a, i - 1)

\* np.corrcoef(x, y)[0, 1] is cov / sqrt(var_x * var_y), NaN when a variance
\* is zero; held as the three integers (each scaled by 12 * 12)
Corrcoef(x, y) ==
    [cov   |-> 12 * SumTo([i \in PitchClasses |-> x[i] * y[i]], 11)
               - SumTo(x, 11) * SumTo(y, 11),
     var_x |-> 12 * SumTo([i \in PitchClasses |-> x[i] * x[i]], 11)
               - SumTo(x, 11) * SumTo(x, 11),
     var_y |-> 12 * SumTo([i \in PitchClasses |-> y[i] * y[i]], 11)
               - SumTo(y, 11) * SumTo(y, 11)]

\* variant: the thirds are compared with >= instead of >
DetectKey_ge(avg) ==
    LET k == ArgmaxFrom(avg, 1, 0)
        scale == IF avg[(k + 4) % 12] >= avg[(k + 3) % 12]
                 THEN "Major" ELSE "Minor"
    IN  [key_index |-> k,
         scale_type |-> scale,
         detected_key |-> key_mapping[k + 1] \o " " \o scale,
         correlation |-> <<Corrcoef(avg, Roll(avg, -k)),
                           Corrcoef(avg, Roll(avg, -k))>>]

\* the locals of the heuristic for the average chroma profile avg
DetectKey(avg) ==
    LET k == Argmax(avg)
        detected_note == key_mapping[k + 1]
        major_correlation == Corrcoef(avg, Roll(avg, -k))
        minor_correlation == Corrcoef(avg, Roll(avg, -k))
        third_major == (k + 4) % 12
        third_minor == (k + 3) % 12
        major_strength == avg[third_major]
        minor_strength == avg[third_minor]
        scale == IF major_strength > minor_strength THEN "Major" ELSE "Minor"
    IN  [key_index |-> k,
         scale_type |-> scale,
         detected_key |-> detected_note \o " " \o scale,
         correlation |-> <<major_correlation, minor_correlation>>]

\* profiles with at most MaxNonZero non-zero pitch classes
Profiles ==
    UNION { { [i \in PitchClasses |-> IF i \in S THEN f[i] ELSE 0] :
                f \in [S -> 1..MaxEnergy] } :
            S \in { T \in SUBSET PitchClasses : Cardinality(T) <= MaxNonZero } }

\* profiles the handler model and the second request of the heuristic use
SampleProfiles ==
    { [i \in PitchClasses |-> 0],
      [i \in PitchClasses |-> IF i = 9 THEN 2 ELSE IF i = 1 THEN 1 ELSE 0],
      [i \in PitchClasses |-> IF i \in {4, 7} THEN 2 ELSE IF i = 8 THEN 1 ELSE 0] }

----------------------------------------------------------------------------
(* Confidence and rounding *)

Min(a, b) == IF a < b THEN a ELSE b

\* variant: the clamp is missing
Confidence_noclamp(s) ==
    CONF_BASE + s

\* min(0.95, 0.7 + (s / 1000) * 0.25), in units of 1 / ConfScale
Confidence(s) ==
    Min(CONF_CAP, CONF_BASE + s)

\* variant: truncation to two decimals instead of rounding
Round2_trunc(c, up) ==
    (c \div (ConfScale \div 100)) * (ConfScale \div 100)

\* round(x, 2) for x = c / ConfScale: the nearest multiple of 0.01.  When c is
\* exactly halfway between two multiples the result depends on the binary
\* value of the float, so up chooses the neighbour.
Round2(c, up) ==
    LET step == ConfScale \div 100
        lo == (c \div step) * step
        rem == c - lo
    IN  IF 2 * rem < step THEN lo
        ELSE IF 2 * rem > step THEN lo + step
        ELSE IF up THEN lo + step ELSE lo

\* variant: int(x), truncation instead of rounding
RoundHalfEven_trunc(n, d) ==
    n \div d

\* round(x) for x = n / d: nearest integer, an exact half goes to the even one
RoundHalfEven(n, d) ==
    LET q == n \div d
        rem == n - q * d
    IN  IF 2 * rem < d THEN q
        ELSE IF 2 * rem > d THEN q + 1
        ELSE IF q % 2 = 0 THEN q ELSE q + 1

StdValues == { k * StdStep : k \in 0..MaxStdSteps }

TempoScale == 10
SampleTempos == { 1195, 1200, 1203, 1205, 1215 }   \* tempo * TempoScale
SampleRates == { 22050, 44100 }
SampleLengths == { 0, 66150 }

----------------------------------------------------------------------------
(* Response bodies *)

\* the dict returned after a real analysis
AnalysisBody(tempo, key, confidence, sr, n_samples) ==
    [bpm |-> RoundHalfEven(tempo, TempoScale),
     key |-> key,
     confidence |-> confidence,
     sample_rate |-> sr,
     duration |-> [num |-> n_samples, den |-> sr],
     analysis_method |-> "librosa"]

\* variant: a megabyte of 1000 * 1000 bytes
analyze_audio_fallback_mb(content_len) ==
    [bpm |-> FALLBACK_BPM,
     key |-> "C Major",
     confidence |-> FALLBACK_CONFIDENCE,
     sample_rate |-> FALLBACK_SAMPLE_RATE,
     duration |-> [num |-> content_len * 10, den |-> 1000 * 1000],
     analysis_method |-> "fallback",
     note |-> "Librosa not available - using estimated values"]

\* analyze_audio_fallback(content, filename); content is len(content)
analyze_audio_fallback(content_len) ==
    LET size == content_len
        estimated_duration == [num |-> size * 10, den |-> 1024 * 1024]
    IN  [bpm |-> FALLBACK_BPM,
         key |-> "C Major",
         confidence |-> FALLBACK_CONFIDENCE,
         sample_rate |-> FALLBACK_SAMPLE_RATE,
         duration |-> estimated_duration,
         analysis_method |-> "fallback",
         note |-> "Librosa not available - using estimated values"]

----------------------------------------------------------------------------
(* Feature dictionaries: a dict is the sequence of its items in insertion   *)
(* order, each item a record [k, v]                                         *)

Item(k, v) == [k |-> k, v |-> v]
DictKeys(d) == [i \in 1..Len(d) |-> d[i].k]
HasKey(d, k) == \E i \in 1..Len(d) : d[i].k = k
DictGet(d, k) == d[CHOOSE i \in 1..Len(d) : d[i].k = k].v

\* d[k] = v: a new key goes to the end, an old key keeps its place
DictSet(d, k, v) ==
    IF HasKey(d, k)
    THEN [i \in 1..Len(d) |-> IF d[i].k = k THEN Item(k, v) ELSE d[i]]
    ELSE Append(d, Item(k, v))

\* d.update(other), also a run of assignments d[k] = v
DictUpdate(d, other) ==
    LET Last(k) ==
            other[CHOOSE j \in 1..Len(other) :
                      /\ other[j].k = k
                      /\ \A m \in (j + 1)..Len(other) : other[m].k # k]
        IsNew(j) ==
            /\ ~HasKey(d, other[j].k)
            /\ \A m \in 1..(j - 1) : other[m].k # other[j].k
        fresh == SelectSeq([j \in 1..Len(other) |-> j], IsNew)
    IN  [i \in 1..Len(d) |->
             IF HasKey(other, d[i].k) THEN Last(d[i].k) ELSE d[i]]
        \o [i \in 1..Len(fresh) |-> Last(other[fresh[i]].k)]

\* the items keys[1] = v, keys[2] = v, ...
Items(keys, v) == [j \in 1..Len(keys) |-> Item(keys[j], v)]

\* the keys prefix + suffix for each suffix
Stats(prefix, suffixes) == [j \in 1..Len(suffixes) |-> prefix \o suffixes[j]]

\* for i in range(lo, hi + 1): the keys prefix + str(i) + suffix
RECURSIVE IndexedKeys(_, _, _, _)
IndexedKeys(prefix, lo, hi, suffixes) ==
    IF lo > hi THEN <<>>
    ELSE Stats(prefix \o ToString(lo), suffixes)
             \o IndexedKeys(prefix, lo + 1, hi, suffixes)

----------------------------------------------------------------------------
(* The feature families of ComprehensiveAudioFeatureExtractor.  A waveform  *)
(* w is [silent, sr, n]; a computed statistic is held as 0 for a silent     *)
(* waveform and as 1 otherwise.                                             *)

N_MFCC == 20
N_CHROMA == 12
MEL_BANDS_KEPT == 20
CONTRAST_ROWS == 7      \* librosa.feature.spectral_contrast: n_bands + 1 rows
POLY_ROWS == 2          \* librosa.feature.poly_features: order + 1 rows
TONNETZ_ROWS == 6       \* librosa.feature.tonnetz: 6 rows
N_MELS == 128           \* librosa.feature.melspectrogram: n_mels rows

Stat(w) == IF w.silent THEN 0 ELSE 1
MeanStdMaxMin == <<"_mean", "_std", "_max", "_min">>
MeanStd == <<"_mean", "_std">>

extract_basic_properties(w) ==
    <<Item("duration", IF w.sr = 0 THEN 0 ELSE w.n \div w.sr),
      Item("sample_rate", w.sr),
      Item("total_samples", w.n)>>
    \o Items(Stats("rms", MeanStdMaxMin), Stat(w))
    \o Items(Stats("zcr", MeanStdMaxMin), Stat(w))

extract_spectral_features(w) ==
    Items(Stats("spectral_centroid", MeanStdMaxMin)
          \o Stats("spectral_bandwidth", MeanStdMaxMin)
          \o Stats("spectral_rolloff", MeanStdMaxMin)
          \o IndexedKeys("spectral_contrast_", 1, CONTRAST_ROWS, MeanStd)
          \o Stats("spectral_flatness", MeanStdMaxMin)
          \o IndexedKeys("poly_feature_", 0, POLY_ROWS - 1, MeanStd),
          Stat(w))

extract_mfcc_features(w) ==
    Items(IndexedKeys("mfcc_", 1, N_MFCC,
                      <<"_mean", "_std", "_max", "_min", "_range">>)
          \o IndexedKeys("mfcc_delta_", 1, N_MFCC, MeanStd)
          \o IndexedKeys("mfcc_delta2_", 1, N_MFCC, MeanStd),
          Stat(w))

extract_chroma_features(w) ==
    Items(IndexedKeys("chroma_stft_", 1, N_CHROMA, MeanStd)
          \o IndexedKeys("chroma_cqt_", 1, N_CHROMA, MeanStd)
          \o IndexedKeys("chroma_cens_", 1, N_CHROMA, MeanStd),
          Stat(w))

extract_tonnetz_features(w) ==
    Items(IndexedKeys("tonnetz_", 1, TONNETZ_ROWS, MeanStdMaxMin), Stat(w))

\* variant: the first mel statistic is stored under a spectral key
extract_mel_features_collide(w) ==
    Items(<<"spectral_flatness_mean", "mel_spectrogram_std",
            "mel_spectrogram_max", "mel_spectrogram_min">>
          \o IndexedKeys("mel_band_", 1, Min(MEL_BANDS_KEPT, N_MELS), <<"">>),
          Stat(w))

extract_mel_features(w) ==
    Items(Stats("mel_spectrogram", MeanStdMaxMin)
          \o IndexedKeys("mel_band_", 1, Min(MEL_BANDS_KEPT, N_MELS), <<"">>),
          Stat(w))

\* variant: the except clause fills only the keys the try block did not reach
Guarded_keep(d, try_items, fail_after, defaults) ==
    IF fail_after < 0
    THEN DictUpdate(d, try_items)
    ELSE DictUpdate(DictUpdate(d, SubSeq(try_items, 1,
                                         Min(fail_after, Len(try_items)))),
                    SubSeq(defaults, fail_after + 1, Len(defaults)))

\* try: the assignments try_items; a failure after fail_after of them
\* (fail_after < 0: none) runs the bare except clause, which assigns defaults
Guarded(d, try_items, fail_after, defaults) ==
    IF fail_after < 0
    THEN DictUpdate(d, try_items)
    ELSE DictUpdate(DictUpdate(d, SubSeq(try_items, 1,
                                         Min(fail_after, Len(try_items)))),
                    defaults)

BeatKeys ==
    <<"tempo", "beat_count", "beat_intervals_mean", "beat_intervals_std",
      "beat_regularity">>
OnsetKeys ==
    <<"onset_count", "onset_rate", "onset_intervals_mean",
      "onset_intervals_std">>
HarmonicKeys ==
    <<"harmonic_energy", "harmonic_rms", "percussive_energy",
      "percussive_rms", "harmonic_ratio", "percussive_ratio">>
TempogramKeys ==
    <<"tempogram_mean", "tempogram_std", "tempogram_max", "tempogram_min",
      "fourier_tempogram_mean", "fourier_tempogram_std">>

\* variant: without the else branch of "if len(beats) > 1"
BeatTry_noelse(w, nbeats) ==
    <<Item("tempo", Stat(w)), Item("beat_count", nbeats)>>
    \o (IF nbeats > 1
        THEN Items(SubSeq(BeatKeys, 3, 5), Stat(w))
        ELSE <<>>)

\* the assignments of the first try block of extract_rhythm_features
BeatTry(w, nbeats) ==
    <<Item("tempo", Stat(w)), Item("beat_count", nbeats)>>
    \o (IF nbeats > 1
        THEN Items(SubSeq(BeatKeys, 3, 5), Stat(w))
        ELSE Items(SubSeq(BeatKeys, 3, 5), 0))

\* the assignments of the second try block of extract_rhythm_features
OnsetTry(w, nonsets) ==
    <<Item("onset_count", nonsets),
      Item("onset_rate", IF nonsets > 0 THEN 1 ELSE 0)>>
    \o (IF nonsets > 1
        THEN Items(SubSeq(OnsetKeys, 3, 4), Stat(w))
        ELSE Items(SubSeq(OnsetKeys, 3, 4), 0))

\* len(onset_times) / (len(y) / sr) divides by zero for an empty waveform:
\* the number of assignments made before the block fails, -1 if it does not
OnsetFailAfter(w, onset_fail) ==
    IF onset_fail = 0 THEN 0
    ELSE IF w.n = 0 THEN 1
    ELSE onset_fail

extract_rhythm_features(w, nbeats, beat_fail, nonsets, onset_fail) ==
    Guarded(Guarded(<<>>, BeatTry(w, nbeats), beat_fail, Items(BeatKeys, 0)),
            OnsetTry(w, nonsets), OnsetFailAfter(w, onset_fail),
            Items(OnsetKeys, 0))

\* the assignments of the try block of extract_harmonic_percussive_features;
\* total_energy is harmonic_energy + percussive_energy
HarmonicTry(w) ==
    Items(SubSeq(HarmonicKeys, 1, 4), Stat(w))
    \o (IF Stat(w) + Stat(w) > 0
        THEN Items(SubSeq(HarmonicKeys, 5, 6), 1)
        ELSE Items(SubSeq(HarmonicKeys, 5, 6), 0))

extract_harmonic_percussive_features(w, hp_fail) ==
    Guarded(<<>>, HarmonicTry(w), hp_fail, Items(HarmonicKeys, 0))

extract_tempogram_features(w, tg_fail) ==
    Guarded(<<>>, Items(TempogramKeys, Stat(w)), tg_fail,
            Items(TempogramKeys, 0))

NoWave == [silent |-> TRUE, sr |-> 0, n |-> 0]
Waves ==
    { w \in [silent : BOOLEAN, sr : {22050, 44100}, n : {0, 66150}] :
        w.n = 0 => w.silent }
NoStep ==
    [family |-> "none", failed |-> FALSE, nbeats |-> 0, beat_fail |-> -1,
     nonsets |-> 0, onset_fail |-> -1, hp_fail |-> -1, tg_fail |-> -1]
NoVector == [kind |-> "none", value |-> <<>>]
NoFirst == [sr |-> 0, n |-> 0, keys |-> <<>>]

----------------------------------------------------------------------------
(* Idle values of the pipelines a specification does not run *)

IdleFeat ==
    /\ feat_pc = "idle"
    /\ wave = NoWave
    /\ step_in = NoStep
    /\ fam_ret = <<>>
    /\ fam_total = 0
    /\ features = <<>>
    /\ feat_out = NoVector
    /\ feat_first = NoFirst
    /\ feat_files = 0

IdleBpm ==
    /\ tempo_in = 0
    /\ bpm_out = 0
    /\ bpm_done = FALSE

NoFiles == [good |-> <<>>, bad |-> <<>>]
NoTable == [df |-> <<>>, labels |-> <<>>]

IdleBatch ==
    /\ files_dict = NoFiles
    /\ batch_pc = "idle"
    /\ batch_i = 0
    /\ all_features = <<>>
    /\ all_labels = <<>>
    /\ batch_failed = {}
    /\ batch_out = NoTable
    /\ attempts = <<>>

IdlePrep ==
    /\ folders = <<>>
    /\ prep_pc = "idle"
    /\ found = <<>>
    /\ tables = <<>>
    /\ prep_out = "none"

NoFolder == ""
NoTrainIn == [model |-> "", fail_at |-> "none"]

IdleTrain ==
    /\ beats_folder = NoFolder
    /\ train_pc = "idle"
    /\ model_i = 0
    /\ train_in = NoTrainIn
    /\ results = <<>>
    /\ timestamp = 0
    /\ disk = {}
    /\ save_in = 0

IdleRank ==
    /\ rank_model = ""
    /\ importance = <<>>
    /\ rank_record = <<>>
    /\ rank_done = FALSE

IdleCli ==
    /\ argv = <<>>
    /\ fs = <<>>
    /\ cli_pc = "idle"
    /\ cli_checked = NoFolder
    /\ cli_run = NoFolder
    /\ cli_written = {}
    /\ exp_outcome = "none"
    /\ exit_status = -1
    /\ exp_trained = FALSE

IdleY ==
    /\ IdleBatch
    /\ IdlePrep
    /\ IdleTrain
    /\ IdleRank
    /\ IdleCli

IdleX ==
    /\ IdleBpm
    /\ IdleFeat
    /\ IdleY

----------------------------------------------------------------------------
(* The POST /analyze-audio handler *)

NoPath == 0

\* library calls of the analysis block that can raise
FailPoints ==
    { "librosa.load", "beat_track", "chroma_cqt", "key heuristic",
      "spectral_centroid", "spectral_rolloff", "np.std" }

NoInp ==
    [write_ok |-> TRUE, fail |-> "none", chroma_avg |-> <<>>, s |-> 0,
     tempo |-> 0, sr |-> 0, n_samples |-> 0]

IdleKey ==
    /\ chroma_avg = <<>>
    /\ key_index = 0
    /\ scale_type = ""
    /\ detected_key = ""
    /\ correlation = <<>>
    /\ key_pc = "idle"
    /\ key_runs = 0
    /\ first_key = [profile |-> <<>>, key |-> ""]
    /\ prev_key = ""

IdleConf ==
    /\ std_pair = <<0, 0>>
    /\ conf_pair = <<0, 0>>
    /\ conf_raw = <<0, 0>>
    /\ conf_done = FALSE

IdleHandler ==
    /\ upload = [r \in Reqs |-> NoUpload]
    /\ pc = [r \in Reqs |-> "absent"]
    /\ file_size = [r \in Reqs |-> 0]
    /\ content = [r \in Reqs |-> 0]
    /\ short_reads = [r \in Reqs |-> 0]
    /\ temp_file_path = [r \in Reqs |-> NoPath]
    /\ created = [r \in Reqs |-> NoPath]
    /\ tmpfiles = {}
    /\ inp = [r \in Reqs |-> NoInp]
    /\ result = [r \in Reqs |-> NoResult]

\* one request has arrived at a freshly started process
Init ==
    /\ LIBROSA_AVAILABLE \in BOOLEAN
    /\ \E u \in Uploads :
          upload = [r \in Reqs |-> IF r = 1 THEN u ELSE NoUpload]
    /\ pc = [r \in Reqs |-> IF r = 1 THEN "start" ELSE "absent"]
    /\ file_size = [r \in Reqs |-> 0]
    /\ content = [r \in Reqs |-> 0]
    /\ short_reads = [r \in Reqs |-> 0]
    /\ temp_file_path = [r \in Reqs |-> NoPath]
    /\ created = [r \in Reqs |-> NoPath]
    /\ tmpfiles = {}
    /\ inp = [r \in Reqs |-> NoInp]
    /\ result = [r \in Reqs |-> NoResult]
    /\ IdleKey
    /\ IdleConf
    /\ IdleX

\* the handler up to its first await: the content-type check, then the
\* initialisation of file_size and content
analyze_audio_begin(r) ==
    /\ pc[r] = "start"
    /\ IF BadContentType(upload[r].content_type)
       THEN /\ result' = [result EXCEPT ![r] =
                   ExceptHandler(HTTPException(400, "File must be an audio file"))]
            /\ pc' = [pc EXCEPT ![r] = "done"]
       ELSE /\ pc' = [pc EXCEPT ![r] = "reading"]
            /\ UNCHANGED result
    /\ file_size' = [file_size EXCEPT ![r] = 0]
    /\ content' = [content EXCEPT ![r] = 0]
    /\ UNCHANGED <<LIBROSA_AVAILABLE, upload, short_reads, temp_file_path,
                   created, tmpfiles, inp, kvars, cvars, xvars>>

\* variant: a read may return two chunks at once
ReadLengths_double(r) ==
    { Min(2 * CHUNK_SIZE, upload[r].size - content[r]) }

\* the byte counts file.read(8192) may return while bytes remain
ReadLengths(r) ==
    LET remaining == upload[r].size - content[r]
        full == Min(CHUNK_SIZE, remaining)
    IN  {full} \cup
        { n \in ShortSizes : n < full /\ short_reads[r] < MaxShortReads }

\* one pass of the read loop with a non-empty chunk
analyze_audio_read(r) ==
    /\ pc[r] = "reading"
    /\ upload[r].size > content[r]
    /\ \E n \in ReadLengths(r) :
          /\ content' = [content EXCEPT ![r] = @ + n]
          /\ file_size' = [file_size EXCEPT ![r] = @ + n]
          /\ short_reads' = [short_reads EXCEPT ![r] =
                  IF n < Min(CHUNK_SIZE, upload[r].size - content[r])
                  THEN @ + 1 ELSE @]
          /\ IF file_size[r] + n > MAX_FILE_SIZE
             THEN /\ result' = [result EXCEPT ![r] =
                         ExceptHandler(HTTPException(400, "File too large (max 50MB)"))]
                  /\ pc' = [pc EXCEPT ![r] = "done"]
             ELSE UNCHANGED <<result, pc>>
    /\ UNCHANGED <<LIBROSA_AVAILABLE, upload, temp_file_path, created,
                   tmpfiles, inp, kvars, cvars, xvars>>

\* variant: a name that is already in use may be handed out again
FreshPaths_any == Paths

\* the names NamedTemporaryFile can pick: those of no existing file
FreshPaths == Paths \ tmpfiles

\* librosa unavailable: return await analyze_audio_fallback(content, filename)
FinishFallback(r) ==
    /\ ~LIBROSA_AVAILABLE
    /\ result' = [result EXCEPT ![r] = Return(analyze_audio_fallback(content[r]))]
    /\ UNCHANGED <<temp_file_path, created, tmpfiles, inp>>

\* NamedTemporaryFile(delete=False) creates the file, temp_file.write raises:
\* the with block closes the file and the exception reaches the outer except
FinishWriteFails(r) ==
    /\ LIBROSA_AVAILABLE
    /\ \E p \in FreshPaths :
          /\ created' = [created EXCEPT ![r] = p]
          /\ tmpfiles' = tmpfiles \cup {p}
    /\ inp' = [inp EXCEPT ![r] = [NoInp EXCEPT !.write_ok = FALSE]]
    /\ result' = [result EXCEPT ![r] =
            ExceptHandler(LibraryError("No space left on device"))]
    /\ UNCHANGED temp_file_path

\* the file is written, a call of the inner try block raises, the finally
\* clause unlinks the file and the exception reaches the outer except
FinishAnalysisFailsAt(r, points) ==
    /\ LIBROSA_AVAILABLE
    /\ \E p \in FreshPaths, f \in points :
          /\ created' = [created EXCEPT ![r] = p]
          /\ temp_file_path' = [temp_file_path EXCEPT ![r] = p]
          /\ tmpfiles' = (tmpfiles \cup {p}) \ {p}
          /\ inp' = [inp EXCEPT ![r] = [NoInp EXCEPT !.fail = f]]
          /\ result' = [result EXCEPT ![r] = ExceptHandler(LibraryError(f))]

\* the file is written, the analysis succeeds, the finally clause unlinks
\* the file and the dict is returned
FinishAnalysisWith(r, profiles, stds, tempos, rates, lengths) ==
    /\ LIBROSA_AVAILABLE
    /\ \E p \in FreshPaths, avg \in profiles, s \in stds,
          tempo \in tempos, sr \in rates,
          n_samples \in lengths, up \in BOOLEAN :
          /\ created' = [created EXCEPT ![r] = p]
          /\ temp_file_path' = [temp_file_path EXCEPT ![r] = p]
          /\ tmpfiles' = (tmpfiles \cup {p}) \ {p}
          /\ inp' = [inp EXCEPT ![r] =
                  [write_ok |-> TRUE, fail |-> "none", chroma_avg |-> avg,
                   s |-> s, tempo |-> tempo, sr |-> sr,
                   n_samples |-> n_samples]]
          /\ result' = [result EXCEPT ![r] =
                  Return(AnalysisBody(tempo, DetectKey(avg).detected_key,
                                      Round2(Confidence(s), up), sr, n_samples))]

FinishAnalysisFails(r) == FinishAnalysisFailsAt(r, FailPoints)

FinishAnalysis(r) ==
    FinishAnalysisWith(r, SampleProfiles, StdValues, SampleTempos, SampleRates,
                       SampleLengths)

\* the read that returns b"" ends the loop; the rest of the handler runs
\* without another await
analyze_audio_finish(r) ==
    /\ pc[r] = "reading"
    /\ upload[r].size = content[r]
    /\ \/ FinishFallback(r)
       \/ FinishWriteFails(r)
       \/ FinishAnalysisFails(r)
       \/ FinishAnalysis(r)
    /\ pc' = [pc EXCEPT ![r] = "done"]
    /\ UNCHANGED <<LIBROSA_AVAILABLE, upload, file_size, content, short_reads,
                   kvars, cvars, xvars>>

Next ==
    \E r \in Reqs :
        \/ analyze_audio_begin(r)
        \/ analyze_audio_read(r)
        \/ analyze_audio_finish(r)

Spec == Init /\ [][Next]_vars

----------------------------------------------------------------------------
(* Concurrent requests: every request slot holds a small upload, and the    *)
(* event loop runs one handler at a time from one await to the next.        *)

ConcUploads ==
    [content_type : { ContentType(<<"a", "u", "d", "i", "o", "/", "w", "a", "v">>),
                      ContentType(<<"t", "e", "x", "t", "/", "p", "l", "a", "i", "n">>) },
     size : { 1, CHUNK_SIZE + 1 }]

ConcProfiles ==
    { [i \in PitchClasses |-> IF i = 9 THEN 2 ELSE IF i = 1 THEN 1 ELSE 0] }
ConcStds == { StdStep * MaxStdSteps }
ConcFailPoints == { "librosa.load" }

\* variant: every await hands control back to the event loop
Suspends_all(awaited) == TRUE

\* whether an await hands control back to the event loop: file.read does,
\* the coroutine analyze_audio_fallback has no await inside and does not
Suspends(awaited) == awaited = "file.read"

InitConc ==
    /\ LIBROSA_AVAILABLE \in BOOLEAN
    /\ upload \in [Reqs -> ConcUploads]
    /\ pc = [r \in Reqs |-> "start"]
    /\ file_size = [r \in Reqs |-> 0]
    /\ content = [r \in Reqs |-> 0]
    /\ short_reads = [r \in Reqs |-> 0]
    /\ temp_file_path = [r \in Reqs |-> NoPath]
    /\ created = [r \in Reqs |-> NoPath]
    /\ tmpfiles = {}
    /\ inp = [r \in Reqs |-> NoInp]
    /\ result = [r \in Reqs |-> NoResult]
    /\ IdleKey
    /\ IdleConf
    /\ IdleX

\* the handler from the read that returns b"" to its end, in as many steps
\* as the awaits on the way hand control back
analyze_audio_tail(r) ==
    /\ \/ pc[r] = "reading" /\ upload[r].size = content[r]
       \/ pc[r] = "fallback"
    /\ IF /\ pc[r] = "reading"
          /\ ~LIBROSA_AVAILABLE
          /\ Suspends("analyze_audio_fallback")
       THEN /\ pc' = [pc EXCEPT ![r] = "fallback"]
            /\ UNCHANGED <<temp_file_path, created, tmpfiles, inp, result>>
       ELSE /\ \/ FinishFallback(r)
               \/ FinishWriteFails(r)
               \/ FinishAnalysisFailsAt(r, ConcFailPoints)
               \/ FinishAnalysisWith(r, ConcProfiles, ConcStds, {1200},
                                     {44100}, {66150})
            /\ pc' = [pc EXCEPT ![r] = "done"]
    /\ UNCHANGED <<LIBROSA_AVAILABLE, upload, file_size, content, short_reads,
                   kvars, cvars, xvars>>

NextConc ==
    \E r \in Reqs :
        \/ analyze_audio_begin(r)
        \/ analyze_audio_read(r)
        \/ analyze_audio_tail(r)

SpecConc == InitConc /\ [][NextConc]_vars

----------------------------------------------------------------------------
(* The key/scale heuristic on its own: requests arrive one after another,   *)
(* each with its average chroma profile, and the locals of the previous run *)
(* are what an earlier request leaves behind.                               *)

InitKey ==
    /\ LIBROSA_AVAILABLE = TRUE
    /\ IdleHandler
    /\ IdleConf
    /\ IdleX
    /\ chroma_avg \in Profiles
    /\ key_index = 0
    /\ scale_type = ""
    /\ detected_key = ""
    /\ correlation = <<>>
    /\ key_pc = "input"
    /\ key_runs = 0
    /\ first_key = [profile |-> <<>>, key |-> ""]
    /\ prev_key = ""

\* variant: the tonic of the previous run is kept while it still has energy
KeyHeuristic_sticky ==
    /\ key_pc = "input"
    /\ LET d == DetectKey(chroma_avg)
           k == IF key_runs > 0 /\ chroma_avg[key_index] > 0
                THEN key_index ELSE d.key_index
           key == key_mapping[k + 1] \o " " \o d.scale_type
       IN  /\ key_index' = k
           /\ scale_type' = d.scale_type
           /\ detected_key' = key
           /\ correlation' = d.correlation
           /\ first_key' = IF key_runs = 0
                           THEN [profile |-> chroma_avg, key |-> key]
                           ELSE first_key
    /\ prev_key' = detected_key
    /\ key_runs' = key_runs + 1
    /\ key_pc' = "done"
    /\ UNCHANGED <<chroma_avg, hvars, cvars, xvars>>

\* lines 99-128 of the handler, applied to chroma_avg
KeyHeuristic ==
    /\ key_pc = "input"
    /\ LET d == DetectKey(chroma_avg)
       IN  /\ key_index' = d.key_index
           /\ scale_type' = d.scale_type
           /\ detected_key' = d.detected_key
           /\ correlation' = d.correlation
           /\ first_key' = IF key_runs = 0
                           THEN [profile |-> chroma_avg, key |-> d.detected_key]
                           ELSE first_key
    /\ prev_key' = detected_key
    /\ key_runs' = key_runs + 1
    /\ key_pc' = "done"
    /\ UNCHANGED <<chroma_avg, hvars, cvars, xvars>>

\* the next request brings the first profile again or another one
KeyNextRequest ==
    /\ key_pc = "done"
    /\ key_runs < MaxKeyRuns
    /\ chroma_avg' \in SampleProfiles \cup {first_key.profile}
    /\ key_pc' = "input"
    /\ UNCHANGED <<key_index, scale_type, detected_key, correlation, key_runs,
                   first_key, prev_key, hvars, cvars, xvars>>

NextKey == KeyHeuristic \/ KeyNextRequest

SpecKey == InitKey /\ [][NextKey]_vars

----------------------------------------------------------------------------
(* The confidence of two responses, for two standard deviations *)

InitConf ==
    /\ LIBROSA_AVAILABLE \in BOOLEAN
    /\ IdleHandler
    /\ IdleKey
    /\ IdleX
    /\ std_pair \in StdValues \X StdValues
    /\ conf_pair = <<0, 0>>
    /\ conf_raw = <<0, 0>>
    /\ conf_done = FALSE

\* lines 136 and 143: the local confidence, then the field of the dict
ConfidenceReal ==
    /\ LIBROSA_AVAILABLE
    /\ ~conf_done
    /\ conf_raw' = <<Confidence(std_pair[1]), Confidence(std_pair[2])>>
    /\ \E up1, up2 \in BOOLEAN :
          /\ std_pair[1] = std_pair[2] => up1 = up2
          /\ conf_pair' =
                <<AnalysisBody(0, "", Round2(Confidence(std_pair[1]), up1),
                               1, 0).confidence,
                  AnalysisBody(0, "", Round2(Confidence(std_pair[2]), up2),
                               1, 0).confidence>>
    /\ conf_done' = TRUE
    /\ UNCHANGED <<std_pair, hvars, kvars, xvars>>

\* line 176: the field of the fallback dict
ConfidenceFallback ==
    /\ ~LIBROSA_AVAILABLE
    /\ ~conf_done
    /\ conf_pair' = <<analyze_audio_fallback(0).confidence,
                      analyze_audio_fallback(0).confidence>>
    /\ conf_done' = TRUE
    /\ UNCHANGED <<conf_raw, std_pair, hvars, kvars, xvars>>

NextConf == ConfidenceReal \/ ConfidenceFallback

SpecConf == InitConf /\ [][NextConf]_vars

----------------------------------------------------------------------------
(* The bpm field of a response, for one tempo estimate *)

InitBpm ==
    /\ LIBROSA_AVAILABLE = TRUE
    /\ IdleHandler
    /\ IdleKey
    /\ IdleConf
    /\ IdleFeat
    /\ IdleY
    /\ tempo_in \in 0..MaxTempo
    /\ bpm_out = 0
    /\ bpm_done = FALSE

\* lines 92 and 141: tempo = float(tempo), then "bpm": round(tempo)
BpmOf ==
    /\ ~bpm_done
    /\ bpm_out' = AnalysisBody(tempo_in, "", 0, 1, 0).bpm
    /\ bpm_done' = TRUE
    /\ UNCHANGED <<tempo_in, hvars, kvars, cvars, fvars, yvars>>

NextBpm == BpmOf

SpecBpm == InitBpm /\ [][NextBpm]_vars

----------------------------------------------------------------------------
(* ComprehensiveAudioFeatureExtractor.extract_all_features, one family call *)
(* per step, for one file after another                                     *)

not_fvars == <<hvars, kvars, cvars, tvars, yvars>>

InitFeat ==
    /\ LIBROSA_AVAILABLE = TRUE
    /\ IdleHandler
    /\ IdleKey
    /\ IdleConf
    /\ IdleBpm
    /\ IdleY
    /\ feat_pc = "load"
    /\ wave = NoWave
    /\ step_in = NoStep
    /\ fam_ret = <<>>
    /\ fam_total = 0
    /\ features = <<>>
    /\ feat_out = NoVector
    /\ feat_first = NoFirst
    /\ feat_files = 1

\* y, sr = self.load_audio(audio_path), then the initial features dict
FeatLoad ==
    /\ feat_pc = "load"
    /\ \/ /\ step_in' = [NoStep EXCEPT !.family = "load", !.failed = TRUE]
          /\ feat_pc' = "raised"
          /\ feat_out' = [kind |-> "raise", value |-> <<>>]
          /\ UNCHANGED <<wave, features>>
       \/ /\ step_in' = [NoStep EXCEPT !.family = "load"]
          /\ wave' \in Waves
          /\ features' = <<Item("file_path", feat_files),
                           Item("extraction_params", wave'.sr)>>
          /\ feat_pc' = "basic"
          /\ UNCHANGED feat_out
    /\ UNCHANGED <<fam_ret, fam_total, feat_first, feat_files, not_fvars>>

\* variant: a failing family is replaced by zero defaults
UnguardedFamily_failsoft(name, nextpc, fam) ==
    /\ feat_pc = name
    /\ \E failed \in BOOLEAN :
          /\ step_in' = [NoStep EXCEPT !.family = name, !.failed = failed]
          /\ fam_ret' = IF failed THEN Items(DictKeys(fam), 0) ELSE fam
    /\ fam_total' = fam_total + Len(fam)
    /\ features' = DictUpdate(features, fam_ret')
    /\ feat_pc' = nextpc
    /\ UNCHANGED <<feat_out, wave, feat_first, feat_files, not_fvars>>

\* features.update(self.extract_..._features(y, sr)) for a family without a
\* try block: an exception of the family leaves extract_all_features
UnguardedFamily(name, nextpc, fam) ==
    /\ feat_pc = name
    /\ \/ /\ step_in' = [NoStep EXCEPT !.family = name, !.failed = TRUE]
          /\ feat_pc' = "raised"
          /\ feat_out' = [kind |-> "raise", value |-> <<>>]
          /\ UNCHANGED <<fam_ret, fam_total, features>>
       \/ /\ step_in' = [NoStep EXCEPT !.family = name]
          /\ fam_ret' = fam
          /\ fam_total' = fam_total + Len(fam)
          /\ features' = DictUpdate(features, fam)
          /\ feat_pc' = nextpc
          /\ UNCHANGED feat_out
    /\ UNCHANGED <<wave, feat_first, feat_files, not_fvars>>

FeatBasic == UnguardedFamily("basic", "spectral", extract_basic_properties(wave))
FeatSpectral == UnguardedFamily("spectral", "mfcc", extract_spectral_features(wave))
FeatMfcc == UnguardedFamily("mfcc", "chroma", extract_mfcc_features(wave))
FeatChroma == UnguardedFamily("chroma", "tonnetz", extract_chroma_features(wave))
FeatTonnetz == UnguardedFamily("tonnetz", "rhythm", extract_tonnetz_features(wave))
FeatMel == UnguardedFamily("mel", "tempogram", extract_mel_features(wave))

\* features.update(fam) for a family whose work is inside try blocks
GuardedFamily(name, nextpc, step, fam) ==
    /\ feat_pc = name
    /\ step_in' = step
    /\ fam_ret' = fam
    /\ fam_total' = fam_total + Len(fam)
    /\ features' = DictUpdate(features, fam)
    /\ feat_pc' = nextpc
    /\ UNCHANGED <<feat_out, wave, feat_first, feat_files, not_fvars>>

FeatRhythm ==
    \E nbeats, nonsets \in 0..MaxBeats, beat_fail \in -1..4, onset_fail \in -1..3 :
        /\ wave.silent => (nbeats = 0 /\ nonsets = 0)
        /\ GuardedFamily("rhythm", "hp",
               [NoStep EXCEPT !.family = "rhythm", !.nbeats = nbeats,
                              !.beat_fail = beat_fail, !.nonsets = nonsets,
                              !.onset_fail = OnsetFailAfter(wave, onset_fail)],
               extract_rhythm_features(wave, nbeats, beat_fail, nonsets,
                                       onset_fail))

FeatHarmonic ==
    \E hp_fail \in -1..5 :
        GuardedFamily("hp", "mel",
            [NoStep EXCEPT !.family = "hp", !.hp_fail = hp_fail],
            extract_harmonic_percussive_features(wave, hp_fail))

FeatTempogram ==
    \E tg_fail \in -1..5 :
        GuardedFamily("tempogram", "count",
            [NoStep EXCEPT !.family = "tempogram", !.tg_fail = tg_fail],
            extract_tempogram_features(wave, tg_fail))

\* lines 377-383: count the features, store the count, return the dict
FeatReturn ==
    /\ feat_pc = "count"
    /\ LET feature_count ==
               Cardinality({ i \in 1..Len(features) :
                   features[i].k \notin {"file_path", "extraction_params"} })
           vector == DictSet(features, "total_features_extracted", feature_count)
       IN  /\ features' = vector
           /\ feat_out' = [kind |-> "return", value |-> vector]
           /\ feat_first' = IF feat_first = NoFirst
                            THEN [sr |-> wave.sr, n |-> wave.n,
                                  keys |-> DictKeys(vector)]
                            ELSE feat_first
    /\ feat_pc' = "returned"
    /\ UNCHANGED <<wave, step_in, fam_ret, fam_total, feat_files, not_fvars>>

\* the caller passes the next file
FeatNextFile ==
    /\ feat_pc \in {"returned", "raised"}
    /\ feat_files < MaxFeatFiles
    /\ feat_files' = feat_files + 1
    /\ feat_pc' = "load"
    /\ wave' = NoWave
    /\ step_in' = NoStep
    /\ fam_ret' = <<>>
    /\ fam_total' = 0
    /\ features' = <<>>
    /\ feat_out' = NoVector
    /\ UNCHANGED <<feat_first, not_fvars>>

NextFeat ==
    \/ FeatLoad
    \/ FeatBasic
    \/ FeatSpectral
    \/ FeatMfcc
    \/ FeatChroma
    \/ FeatTonnetz
    \/ FeatRhythm
    \/ FeatHarmonic
    \/ FeatMel
    \/ FeatTempogram
    \/ FeatReturn
    \/ FeatNextFile

SpecFeat == InitFeat /\ [][NextFeat]_vars

----------------------------------------------------------------------------
(* BeatMLExperiment.extract_features_from_files, one file per step *)

not_bvars == <<hvars, kvars, cvars, tvars, fvars, pvars, mvars, rvars, clvars>>

\* the paths first..last of one folder
PathSeq(first, last) == [j \in 1..(last - first + 1) |-> first + j - 1]

InitBatch ==
    /\ LIBROSA_AVAILABLE = TRUE
    /\ IdleHandler
    /\ IdleKey
    /\ IdleConf
    /\ IdleBpm
    /\ IdleFeat
    /\ IdlePrep
    /\ IdleTrain
    /\ IdleRank
    /\ IdleCli
    /\ attempts = <<>>
    /\ \E ngood, nbad \in 0..MaxBatchFiles :
           files_dict = [good |-> PathSeq(1, ngood),
                         bad |-> PathSeq(ngood + 1, ngood + nbad)]
    /\ batch_pc = "good"
    /\ batch_i = 1
    /\ all_features = <<>>
    /\ all_labels = <<>>
    /\ batch_failed = {}
    /\ batch_out = NoTable

\* variant: the label is appended before the extraction is tried
ProcessFile_labelfirst(rows, labels, file_path, label, raises) ==
    IF raises
    THEN [rows |-> rows, labels |-> Append(labels, label)]
    ELSE [rows |-> Append(rows, [file |-> file_path]),
          labels |-> Append(labels, label)]

\* the body of either loop: try the extraction, append the row and then the
\* label; except Exception: print only
ProcessFile(rows, labels, file_path, label, raises) ==
    IF raises
    THEN [rows |-> rows, labels |-> labels]
    ELSE [rows |-> Append(rows, [file |-> file_path]),
          labels |-> Append(labels, label)]

BatchFile(label) ==
    /\ batch_pc = label
    /\ batch_i <= Len(files_dict[label])
    /\ \E raises \in BOOLEAN :
          LET file_path == files_dict[label][batch_i]
              after == ProcessFile(all_features, all_labels, file_path, label,
                                   raises)
          IN  /\ all_features' = after.rows
              /\ all_labels' = after.labels
              /\ batch_failed' = IF raises THEN batch_failed \cup {file_path}
                                 ELSE batch_failed
              /\ attempts' = Append(attempts, file_path)
    /\ batch_i' = batch_i + 1
    /\ UNCHANGED <<files_dict, batch_pc, batch_out, not_bvars>>

BatchGoodFile == BatchFile("good")
BatchBadFile == BatchFile("bad")

\* the loop over files_dict['good'] is exhausted
BatchGoodEnd ==
    /\ batch_pc = "good"
    /\ batch_i > Len(files_dict.good)
    /\ batch_pc' = "bad"
    /\ batch_i' = 1
    /\ UNCHANGED <<files_dict, all_features, all_labels, batch_failed,
                   batch_out, attempts, not_bvars>>

\* the loop over files_dict['bad'] is exhausted: build and return df, labels
BatchReturn ==
    /\ batch_pc = "bad"
    /\ batch_i > Len(files_dict.bad)
    /\ batch_out' = [df |-> all_features, labels |-> all_labels]
    /\ batch_pc' = "returned"
    /\ UNCHANGED <<files_dict, batch_i, all_features, all_labels, batch_failed,
                   attempts, not_bvars>>

NextBatch ==
    \/ BatchGoodFile
    \/ BatchBadFile
    \/ BatchGoodEnd
    \/ BatchReturn

SpecBatch == InitBatch /\ [][NextBatch]_vars

\* ---------------------------------------------------------------------
\* prepare_data (ml_experiment.py lines 179-212) over find_audio_files
\* (lines 91-128) and the two calls of extract_features_from_files
\* ---------------------------------------------------------------------

\* the supported audio formats, in the order the globs are run
audio_extensions == <<".mp3", ".wav", ".flac", ".m4a", ".aac">>

\* variant: the test set is extracted before the training set
SetOrder_testfirst == <<"test", "train">>

\* X_train, y_train is extracted first, X_test, y_test second
SetOrder == <<"train", "test">>

Labels == {"good", "bad"}

\* the n-th entry of the listing of <set>/<label>/
File(set, label, n, ext) == [dir |-> set, label |-> label, n |-> n, ext |-> ext]

NoDir == [exists |-> FALSE, files |-> <<>>]

\* what <set>/<label>/ can be: absent, or a listing with audio files of two
\* formats (listed against the order of the globs), or one without any
SubFolders(set, label) ==
    { NoDir,
      [exists |-> TRUE, files |-> <<File(set, label, 1, ".txt")>>],
      [exists |-> TRUE, files |-> <<File(set, label, 1, ".wav"),
                                    File(set, label, 2, ".mp3")>>] }

SetFolders(set) ==
    { [exists |-> FALSE, good |-> NoDir, bad |-> NoDir] } \cup
    { [exists |-> TRUE, good |-> g, bad |-> b] :
        g \in SubFolders(set, "good"), b \in SubFolders(set, "bad") }

\* list(folder.glob(f"*{ext}"))
Glob(listing, ext) ==
    LET Matches(f) == f.ext = ext
    IN  SelectSeq(listing, Matches)

\* for ext in audio_extensions: audio_files[label].extend(...)
RECURSIVE GlobAll(_, _)
GlobAll(listing, exts) ==
    IF exts = <<>> THEN <<>>
    ELSE Glob(listing, Head(exts)) \o GlobAll(listing, Tail(exts))

find_audio_files(folder) ==
    IF ~folder.exists
    THEN [good |-> <<>>, bad |-> <<>>]
    ELSE [good |-> IF ~folder.good.exists THEN <<>>
                   ELSE GlobAll(folder.good.files, audio_extensions),
          bad |-> IF ~folder.bad.exists THEN <<>>
                  ELSE GlobAll(folder.bad.files, audio_extensions)]

\* label_encoder.classes_ after fit_transform(y)
Classes(y) == { y[i] : i \in DOMAIN y }

\* LabelEncoder.transform raises ValueError for a label fit has not seen
EncodeRaises(classes, labels) == labels \ classes # {}

not_pvars == <<hvars, kvars, cvars, tvars, fvars, mvars, rvars, clvars>>

InitPrep ==
    /\ LIBROSA_AVAILABLE = TRUE
    /\ IdleHandler
    /\ IdleKey
    /\ IdleConf
    /\ IdleBpm
    /\ IdleFeat
    /\ IdleBatch
    /\ IdleTrain
    /\ IdleRank
    /\ IdleCli
    /\ folders \in [train : SetFolders("train"), test : SetFolders("test")]
    /\ prep_pc = "find"
    /\ found = <<>>
    /\ tables = [train |-> NoTable, test |-> NoTable]
    /\ prep_out = "none"

\* extract_features_from_files(files) is entered
EnterExtract(files) ==
    /\ files_dict' = files
    /\ batch_pc' = "good"
    /\ batch_i' = 1
    /\ all_features' = <<>>
    /\ all_labels' = <<>>
    /\ batch_out' = NoTable
    /\ UNCHANGED <<batch_failed, attempts>>

\* lines 189-194: both folders are searched, the first extraction starts
PrepFind ==
    /\ prep_pc = "find"
    /\ found' = [train |-> find_audio_files(folders.train),
                 test |-> find_audio_files(folders.test)]
    /\ EnterExtract(found'[SetOrder[1]])
    /\ prep_pc' = SetOrder[1]
    /\ UNCHANGED <<folders, tables, prep_out, not_pvars>>

\* lines 194-197: the first extraction has returned, the second starts
PrepNextSet ==
    /\ prep_pc = SetOrder[1]
    /\ batch_pc = "returned"
    /\ tables' = [tables EXCEPT ![SetOrder[1]] = batch_out]
    /\ EnterExtract(found[SetOrder[2]])
    /\ prep_pc' = SetOrder[2]
    /\ UNCHANGED <<folders, found, prep_out, not_pvars>>

\* lines 197-212: the second extraction has returned; fillna(0) leaves the
\* rows in place; the labels are encoded and the five values returned
PrepEncode ==
    /\ prep_pc = SetOrder[2]
    /\ batch_pc = "returned"
    /\ tables' = [tables EXCEPT ![SetOrder[2]] = batch_out]
    /\ prep_out' = IF EncodeRaises(Classes(tables'.train.labels),
                                   Classes(tables'.test.labels))
                   THEN "raised" ELSE "returned"
    /\ prep_pc' = "done"
    /\ UNCHANGED <<folders, found, bvars, not_pvars>>

NextPrep ==
    \/ PrepFind
    \/ BatchGoodFile
    \/ BatchBadFile
    \/ BatchGoodEnd
    \/ BatchReturn
    \/ PrepNextSet
    \/ PrepEncode

SpecPrep == InitPrep /\ [][NextPrep]_vars

----------------------------------------------------------------------------
(* BeatMLExperiment.train_and_evaluate_models and save_results *)

not_mvars == <<hvars, kvars, cvars, tvars, fvars, bvars, pvars, rvars, clvars>>
not_rvars == <<hvars, kvars, cvars, tvars, fvars, bvars, pvars, mvars, clvars>>

\* self.models, in insertion order
models == <<"XGBoost", "LightGBM", "RandomForest", "LogisticRegression", "SVM">>

\* hasattr(model, 'feature_importances_') of the fitted model
HasImportances(model_name) ==
    model_name \in {"XGBoost", "LightGBM", "RandomForest"}

\* model_name.lower()
Lower(model_name) ==
    CASE model_name = "XGBoost" -> "xgboost"
      [] model_name = "LightGBM" -> "lightgbm"
      [] model_name = "RandomForest" -> "randomforest"
      [] model_name = "LogisticRegression" -> "logisticregression"
      [] model_name = "SVM" -> "svm"

Roots == {"beats", "mydata"}

\* X_train.columns: the first columns of a feature row
ColumnNames == SubSeq(DictKeys(extract_basic_properties(NoWave)), 1, MaxCols)

\* the record of lines 259-269; a metric value is held as 1
MetricRecord ==
    Items(<<"accuracy", "precision", "recall", "f1_score", "roc_auc",
            "cv_mean", "cv_std", "predictions", "probabilities">>, 1)

\* variant: sorted without reverse=True
SortedImportance_asc(feature_names, imp) ==
    LET n == Min(Len(feature_names), Len(imp))
        Before(m, j) == imp[m] < imp[j] \/ (imp[m] = imp[j] /\ m < j)
        Rank(j) == Cardinality({ m \in 1..n : Before(m, j) }) + 1
        At(r) == CHOOSE j \in 1..n : Rank(j) = r
    IN  [r \in 1..n |-> Item(feature_names[At(r)], imp[At(r)])]

\* dict(sorted(dict(zip(feature_names, importance)).items(),
\*             key=lambda x: x[1], reverse=True)): a stable sort, so equal
\* scores keep the order of the columns
SortedImportance(feature_names, imp) ==
    LET n == Min(Len(feature_names), Len(imp))
        Before(m, j) == imp[m] > imp[j] \/ (imp[m] = imp[j] /\ m < j)
        Rank(j) == Cardinality({ m \in 1..n : Before(m, j) }) + 1
        At(r) == CHOOSE j \in 1..n : Rank(j) = r
    IN  [r \in 1..n |-> Item(feature_names[At(r)], imp[At(r)])]

\* results[model_name] when the try block completes (lines 259-279)
StoreRecord(model_name, feature_names, imp) ==
    IF HasImportances(model_name)
    THEN DictSet(MetricRecord, "feature_importance",
                 SortedImportance(feature_names, imp))
    ELSE MetricRecord

FailSteps == {"none", "fit", "predict", "metric", "cv", "importance"}

\* the try block of one model: a failure before line 259 stores nothing, a
\* failure in the importance step comes after the record was stored
TryModel(res, model_name, feature_names, imp, fail_at) ==
    IF fail_at \in {"fit", "predict", "metric", "cv"} THEN res
    ELSE IF fail_at = "importance" THEN DictSet(res, model_name, MetricRecord)
    ELSE DictSet(res, model_name, StoreRecord(model_name, feature_names, imp))

\* except Exception as e: results[model_name] = {'error': str(e)}
ExceptModel(res, model_name, fail_at) ==
    DictSet(res, model_name, <<Item("error", "Error in " \o fail_at)>>)

\* variant: the loop ends at the first model that fails
NextModelIndex_break(i, failed) ==
    IF failed THEN Len(models) + 1 ELSE i + 1

\* the for loop goes on to the next model, failed or not
NextModelIndex(i, failed) == i + 1

SampleImportance == [j \in 1..MaxCols |-> j % (MaxScore + 1)]

InitTrain ==
    /\ LIBROSA_AVAILABLE = TRUE
    /\ IdleHandler
    /\ IdleKey
    /\ IdleConf
    /\ IdleBpm
    /\ IdleFeat
    /\ IdleBatch
    /\ IdlePrep
    /\ IdleRank
    /\ IdleCli
    /\ beats_folder \in Roots
    /\ train_pc = "scale"
    /\ model_i = 1
    /\ train_in = NoTrainIn
    /\ results = <<>>
    /\ timestamp = 0
    /\ disk = {}
    /\ save_in = 0

\* lines 229-233: the scaler is fitted outside any try block
TrainScale ==
    /\ train_pc = "scale"
    /\ \/ /\ train_pc' = "model"
          /\ UNCHANGED train_in
       \/ /\ train_pc' = "raised"
          /\ train_in' = [model |-> "", fail_at |-> "scale"]
    /\ UNCHANGED <<beats_folder, model_i, results, timestamp, disk, save_in,
                   not_mvars>>

\* one iteration of the loop over self.models.items()
TrainModel ==
    /\ train_pc = "model"
    /\ model_i <= Len(models)
    /\ \E fail_at \in FailSteps :
          LET model_name == models[model_i]
              tried == TryModel(results, model_name, ColumnNames,
                                SampleImportance, fail_at)
          IN  /\ fail_at = "importance" => HasImportances(model_name)
              /\ train_in' = [model |-> model_name, fail_at |-> fail_at]
              /\ results' = IF fail_at = "none" THEN tried
                            ELSE ExceptModel(tried, model_name, fail_at)
              /\ model_i' = NextModelIndex(model_i, fail_at # "none")
    /\ UNCHANGED <<beats_folder, train_pc, timestamp, disk, save_in,
                   not_mvars>>

\* return results; run_experiment puts them under 'model_results'
TrainReturn ==
    /\ train_pc = "model"
    /\ model_i > Len(models)
    /\ train_pc' = "save"
    /\ UNCHANGED <<beats_folder, model_i, train_in, results, timestamp, disk,
                   save_in, not_mvars>>

\* strftime("%Y%m%d_%H%M%S") of the second the call is made in
Stamp(t) == ToString(t)

ResultFile(folder, stem, t) ==
    [folder |-> folder, name |-> stem \o "_results_" \o Stamp(t) \o ".json"]

\* variant: a file for every entry
ModelFileWanted_all(model_result) == TRUE

\* if 'error' not in model_result
ModelFileWanted(model_result) == ~HasKey(model_result, "error")

\* the files save_results opens, in order
FilesToWrite(folder, model_results, t) ==
    <<ResultFile(folder, "ml_experiment", t)>>
    \o LET wanted == SelectSeq(model_results,
                               LAMBDA it : ModelFileWanted(it.v))
       IN  [j \in 1..Len(wanted) |-> ResultFile(folder, Lower(wanted[j].k), t)]

\* save_results(experiment_results): open() can fail at any of the files
SaveResults ==
    /\ train_pc = "save"
    /\ \E t \in 1..MaxStamps :
          LET files == FilesToWrite(beats_folder, results, t)
          IN  \E fail \in 0..Len(files) :
                 /\ timestamp' = t
                 /\ save_in' = fail
                 /\ disk' = disk \cup
                        { files[j] : j \in 1..(IF fail = 0 THEN Len(files)
                                               ELSE fail - 1) }
                 /\ train_pc' = IF fail = 0 THEN "saved" ELSE "raised"
    /\ UNCHANGED <<beats_folder, model_i, train_in, results, not_mvars>>

NextTrain ==
    \/ TrainScale
    \/ TrainModel
    \/ TrainReturn
    \/ SaveResults

SpecTrain == InitTrain /\ [][NextTrain]_vars

----------------------------------------------------------------------------
(* The feature importance stored for one model *)

InitRank ==
    /\ LIBROSA_AVAILABLE = TRUE
    /\ IdleHandler
    /\ IdleKey
    /\ IdleConf
    /\ IdleBpm
    /\ IdleFeat
    /\ IdleBatch
    /\ IdlePrep
    /\ IdleTrain
    /\ IdleCli
    /\ rank_model \in { models[j] : j \in 1..Len(models) }
    /\ importance \in [1..MaxCols -> 0..MaxScore]
    /\ rank_record = <<>>
    /\ rank_done = FALSE

RankStore ==
    /\ ~rank_done
    /\ rank_record' = StoreRecord(rank_model, ColumnNames, importance)
    /\ rank_done' = TRUE
    /\ UNCHANGED <<rank_model, importance, not_rvars>>

NextRank == RankStore

SpecRank == InitRank /\ [][NextRank]_vars

----------------------------------------------------------------------------
(* run_ml_experiment.py: main, with the experiment it starts as one step *)

not_clvars == <<hvars, kvars, cvars, tvars, fvars, bvars, pvars, mvars, rvars>>

\* what exists below a root folder: the folders train/ and test/, the
\* subfolders good/ and bad/ of each, and the labels of the feature rows that
\* the extraction gets out of each set
Layouts ==
    { l \in [root : BOOLEAN, train : BOOLEAN, test : BOOLEAN,
             train_sub : SUBSET Labels, test_sub : SUBSET Labels,
             train_labels : SUBSET Labels, test_labels : SUBSET Labels] :
        /\ (l.train \/ l.test) => l.root
        /\ l.train_sub # {} => l.train
        /\ l.test_sub # {} => l.test
        /\ l.train_labels \subseteq l.train_sub
        /\ l.test_labels \subseteq l.test_sub }

\* the other root folder is absent or complete
OtherLayouts ==
    { l \in Layouts : \/ ~l.root
                      \/ l.train_labels = Labels /\ l.test_labels = Labels }

FileSystems == { [beats |-> a, mydata |-> b] : a \in Layouts, b \in OtherLayouts }

\* both sets yield feature rows
Samples(l) == l.train_labels # {} /\ l.test_labels # {}

\* run_experiment (ml_experiment.py lines 289-345) on a folder with layout l:
\* what it returns or raises, whether train_and_evaluate_models was called
\* and whether save_results wrote a file
RunOutcomes(l) ==
    IF ~l.root
    THEN { [outcome |-> "empty", trained |-> FALSE, written |-> FALSE] }
    ELSE IF EncodeRaises(l.train_labels, l.test_labels)
    THEN { [outcome |-> "raised", trained |-> FALSE, written |-> FALSE] }
    ELSE IF l.train_labels = {} \/ l.test_labels = {}
    THEN { [outcome |-> "empty", trained |-> FALSE, written |-> FALSE] }
    ELSE { [outcome |-> "results", trained |-> TRUE, written |-> TRUE] } \cup
         { [outcome |-> "raised", trained |-> TRUE, written |-> w] :
             w \in BOOLEAN }

\* the command lines: no argument, or a root folder
Argvs == {<<>>} \cup { <<r>> : r \in Roots }

\* variant: the folder is the first argument, beats without one
RootFolder_argv(args) == IF args = <<>> THEN "beats" ELSE args[1]

\* beats_folder = Path("beats"): sys.argv is not read
RootFolder(args) == "beats"

\* run_ml_experiment("beats")
ExperimentFolder(args) == "beats"

\* variant: only the root folder is checked
ChecksFail_rootonly(l) == ~l.root

\* lines 30, 47: the three existence checks of main
ChecksFail(l) == ~l.root \/ ~l.train \/ ~l.test

\* variant: sys.exit(1) unless the experiment returned results
ExitAfter_fail(outcome) == IF outcome = "results" THEN 0 ELSE 1

\* main returns after the try statement whatever happened in it
ExitAfter(outcome) == 0

InitCli ==
    /\ LIBROSA_AVAILABLE = TRUE
    /\ IdleHandler
    /\ IdleKey
    /\ IdleConf
    /\ IdleBpm
    /\ IdleFeat
    /\ IdleBatch
    /\ IdlePrep
    /\ IdleTrain
    /\ IdleRank
    /\ argv \in Argvs
    /\ fs \in FileSystems
    /\ cli_pc = "start"
    /\ cli_checked = NoFolder
    /\ cli_run = NoFolder
    /\ cli_written = {}
    /\ exp_outcome = "none"
    /\ exit_status = -1
    /\ exp_trained = FALSE

\* lines 28-50: the folder checks, sys.exit(1) when one fails
CliCheck ==
    /\ cli_pc = "start"
    /\ LET folder == RootFolder(argv)
       IN  /\ cli_checked' = folder
           /\ IF ChecksFail(fs[folder])
              THEN /\ cli_pc' = "exited"
                   /\ exit_status' = 1
              ELSE /\ cli_pc' = "run"
                   /\ UNCHANGED exit_status
    /\ UNCHANGED <<argv, fs, cli_run, cli_written, exp_outcome, exp_trained,
                   not_clvars>>

\* lines 52-96: the counts and warnings, the experiment inside try / except
\* Exception, then the end of main; result files go to the folder of the
\* experiment
CliRun ==
    /\ cli_pc = "run"
    /\ LET folder == ExperimentFolder(argv)
       IN  /\ cli_run' = folder
           /\ \E o \in RunOutcomes(fs[folder]) :
                 /\ exp_outcome' = o.outcome
                 /\ exp_trained' = o.trained
                 /\ cli_written' = IF o.written THEN {folder} ELSE {}
                 /\ exit_status' = ExitAfter(o.outcome)
    /\ cli_pc' = "exited"
    /\ UNCHANGED <<argv, fs, cli_checked, not_clvars>>

NextCli ==
    \/ CliCheck
    \/ CliRun

SpecCli == InitCli /\ [][NextCli]_vars

\* ---------------------------------------------------------------------
\* run_ml_experiment(beats_folder) called directly (ml_experiment.py lines
\* 408-417): any root folder, no check before run_experiment
\* ---------------------------------------------------------------------
InitExp ==
    /\ LIBROSA_AVAILABLE = TRUE
    /\ IdleHandler
    /\ IdleKey
    /\ IdleConf
    /\ IdleBpm
    /\ IdleFeat
    /\ IdleBatch
    /\ IdlePrep
    /\ IdleRank
    /\ beats_folder \in Roots
    /\ train_pc = "idle"
    /\ model_i = 0
    /\ train_in = NoTrainIn
    /\ results = <<>>
    /\ timestamp = 0
    /\ disk = {}
    /\ save_in = 0
    /\ argv = <<>>
    /\ fs \in FileSystems
    /\ cli_pc = "call"
    /\ cli_checked = NoFolder
    /\ cli_run = NoFolder
    /\ cli_written = {}
    /\ exp_outcome = "none"
    /\ exit_status = -1
    /\ exp_trained = FALSE

\* experiment.run_experiment() from its first line to its return or raise
ExpRun ==
    /\ cli_pc = "call"
    /\ cli_run' = beats_folder
    /\ \E o \in RunOutcomes(fs[beats_folder]) :
          /\ exp_outcome' = o.outcome
          /\ exp_trained' = o.trained
          /\ cli_written' = IF o.written THEN {beats_folder} ELSE {}
    /\ cli_pc' = "returned"
    /\ UNCHANGED <<argv, fs, cli_checked, exit_status, not_clvars>>

NextExp == ExpRun

SpecExp == InitExp /\ [][NextExp]_vars

----------------------------------------------------------------------------
(* Claims about the handler *)

Done(r) == pc[r] = "done"
Accepted(r) ==
    /\ ~BadContentType(upload[r].content_type)
    /\ upload[r].size <= MAX_FILE_SIZE

\* C1: a request whose content type is missing or does not start with
\* "audio/" is answered with status 400.
C1_BadContentTypeGets400 ==
    \A r \in Reqs :
        (Done(r) /\ BadContentType(upload[r].content_type))
            => result[r].status = 400

\* C2: an audio upload of exactly 50 MiB passes the size check and is
\* analysed, and one of 50 MiB + 1 byte is answered with status 400,
\* however the upload is split into chunks.
C2_SizeBoundary ==
    \A r \in Reqs :
        (Done(r) /\ ~BadContentType(upload[r].content_type)) =>
            /\ upload[r].size = MAX_FILE_SIZE =>
                   /\ result[r].cause.cls # "HTTPException"
                   /\ content[r] = MAX_FILE_SIZE
            /\ upload[r].size = MAX_FILE_SIZE + 1 => result[r].status = 400

\* C3: a failure raised by a call of the analysis block ends the request
\* with status 500 and the detail "Audio analysis failed: " followed by the
\* text of the failure, and in no other form.
C3_AnalysisFailureIs500 ==
    \A r \in Reqs :
        (Done(r) /\ inp[r].fail # "none") =>
            /\ result[r].kind = "raise"
            /\ result[r].status = 500
            /\ result[r].detail = "Audio analysis failed: " \o inp[r].fail

C3_Witness ==
    \E r \in Reqs :
        /\ Done(r)
        /\ inp[r].fail = "chroma_cqt"
        /\ upload[r].size = 2 * MiB

\* C4: a temporary file created for a request no longer exists when the
\* handler has returned or raised.
C4_TempFileGone ==
    \A r \in Reqs :
        (Done(r) /\ created[r] # NoPath) => created[r] \notin tmpfiles

\* C5: with the library unavailable every accepted upload gets the fallback
\* response (bpm 120, "C Major", confidence 0.3, sample rate 44100, duration
\* size / 1 MiB * 10, 20 for 2 MiB, method "fallback") and no temporary file
\* is created; the method is "fallback" exactly when the library is
\* unavailable and "librosa" otherwise.
C5_Fallback ==
    \A r \in Reqs :
        (Done(r) /\ Accepted(r)) =>
            /\ ~LIBROSA_AVAILABLE =>
                   /\ result[r].kind = "return"
                   /\ result[r].status = 200
                   /\ result[r].body.bpm = 120
                   /\ result[r].body.key = "C Major"
                   /\ 10 * result[r].body.confidence = 3 * ConfScale
                   /\ result[r].body.sample_rate = 44100
                   /\ result[r].body.duration
                          = [num |-> 10 * upload[r].size, den |-> MiB]
                   /\ upload[r].size = 2 * MiB =>
                          result[r].body.duration.num
                              = 20 * result[r].body.duration.den
                   /\ created[r] = NoPath
                   /\ tmpfiles = {}
            /\ result[r].kind = "return" =>
                   /\ result[r].body.analysis_method = "fallback"
                          <=> ~LIBROSA_AVAILABLE
                   /\ result[r].body.analysis_method = "librosa"
                          <=> LIBROSA_AVAILABLE

C5_Witness ==
    \E r \in Reqs :
        /\ Done(r)
        /\ ~LIBROSA_AVAILABLE
        /\ upload[r].size = 2 * MiB
        /\ result[r].body.analysis_method = "fallback"

\* C22: the running count is the number of bytes buffered, the buffer never
\* holds more than 50 MiB plus one chunk, and a request whose count is above
\* 50 MiB has left the read loop with an exception: it reads no more.
C22_ReadStopsAtLimit ==
    \A r \in Reqs :
        /\ file_size[r] = content[r]
        /\ content[r] <= MAX_FILE_SIZE + CHUNK_SIZE
        /\ file_size[r] > MAX_FILE_SIZE =>
               /\ Done(r)
               /\ result[r].kind = "raise"
               /\ result[r].cause = HTTPException(400, "File too large (max 50MB)")

\* an upload of 50 MiB and two chunks is given up after 50 MiB and one chunk
C22_Witness ==
    \E r \in Reqs :
        /\ Done(r)
        /\ upload[r].size = MAX_FILE_SIZE + 2 * CHUNK_SIZE
        /\ content[r] = MAX_FILE_SIZE + CHUNK_SIZE
        /\ file_size[r] = MAX_FILE_SIZE + CHUNK_SIZE
        /\ result[r].kind = "raise"

C26_NonAudio(r) ==
    \/ ~upload[r].content_type.present
    \/ Len(upload[r].content_type.value) < Len(AUDIO_PREFIX)
    \/ \E j \in 1..Len(AUDIO_PREFIX) :
           upload[r].content_type.value[j] # AUDIO_PREFIX[j]

\* C26: of a request without an audio content type no byte is ever read; for
\* neither such a request nor an upload above 50 MiB is a temporary file
\* created or a library call of the analysis made, and neither gets a result.
C26_ValidationPrecedesWork ==
    \A r \in Reqs :
        /\ C26_NonAudio(r) =>
               /\ content[r] = 0
               /\ file_size[r] = 0
        /\ (C26_NonAudio(r) \/ upload[r].size > MAX_FILE_SIZE) =>
               /\ created[r] = NoPath
               /\ temp_file_path[r] = NoPath
               /\ inp[r] = NoInp
               /\ result[r].kind # "return"
               /\ Done(r) => result[r].kind = "raise"

\* an oversized audio upload is rejected after more than 50 MiB were read
\* and before any file was created
C26_Witness ==
    \E r \in Reqs :
        /\ Done(r)
        /\ ~C26_NonAudio(r)
        /\ upload[r].size = MAX_FILE_SIZE + 1
        /\ content[r] = MAX_FILE_SIZE + 1
        /\ created[r] = NoPath
        /\ tmpfiles = {}
        /\ result[r].kind = "raise"

\* the responses a request with upload u can get on its own, the library
\* calls having behaved as in i
SoloResults(u, flag, i) ==
    IF BadContentType(u.content_type)
    THEN { ExceptHandler(HTTPException(400, "File must be an audio file")) }
    ELSE IF u.size > MAX_FILE_SIZE
    THEN { ExceptHandler(HTTPException(400, "File too large (max 50MB)")) }
    ELSE IF ~flag
    THEN { Return(analyze_audio_fallback(u.size)) }
    ELSE IF ~i.write_ok
    THEN { ExceptHandler(LibraryError("No space left on device")) }
    ELSE IF i.fail # "none"
    THEN { ExceptHandler(LibraryError(i.fail)) }
    ELSE { Return(AnalysisBody(i.tempo, DetectKey(i.chroma_avg).detected_key,
                               Round2(Confidence(i.s), up), i.sr, i.n_samples)) :
               up \in BOOLEAN }

\* the state of one request
Own(r) ==
    <<pc[r], file_size[r], content[r], temp_file_path[r], created[r], inp[r],
      result[r]>>

C24_Own ==
    \A r \in Reqs :
        /\ file_size[r] = content[r]
        /\ content[r] <= upload[r].size
        /\ Done(r) => result[r] \in SoloResults(upload[r], LIBROSA_AVAILABLE, inp[r])
        /\ ~Done(r) => result[r] = NoResult

C24_Step ==
    /\ tmpfiles \subseteq tmpfiles'
    /\ \A r, q \in Reqs : (r # q /\ Own(r)' # Own(r)) => Own(q)' = Own(q)

\* C24: under every interleaving a response is one the request would get on
\* its own from its upload, the flag and its own library calls; a step
\* changes the buffer, files and result of one request only and deletes no
\* file that existed before the step.
C24_RequestsIsolated == []C24_Own /\ [][C24_Step]_vars

\* the second request was analysed and answered while the first one was in
\* the middle of its upload
C24_Witness ==
    /\ LIBROSA_AVAILABLE
    /\ pc[1] = "reading"
    /\ content[1] = CHUNK_SIZE
    /\ upload[1].size = CHUNK_SIZE + 1
    /\ Done(2)
    /\ upload[2].size = 1
    /\ result[2].kind = "return"
    /\ created[2] # NoPath
    /\ tmpfiles = {}

\* C25: whenever another request can take a step, a request that has not
\* returned is either not started or waiting in the chunk read of line 66:
\* after the read that returns no bytes the handler is never suspended.
C25_NoSuspensionAfterRead ==
    \A r \in Reqs : ~Done(r) => pc[r] \in {"start", "reading"}

\* without librosa the second request went through the awaited fallback and
\* returned while the first one was waiting for its second chunk
C25_Witness ==
    /\ ~LIBROSA_AVAILABLE
    /\ pc[1] = "reading"
    /\ content[1] = CHUNK_SIZE
    /\ upload[1].size = CHUNK_SIZE + 1
    /\ Done(2)
    /\ result[2].kind = "return"
    /\ result[2].body.analysis_method = "fallback"

----------------------------------------------------------------------------
(* Claims about the key/scale heuristic *)

C6_Table == <<"C", "C#", "D", "D#", "E", "F", "F#", "G", "G#", "A", "A#", "B">>

\* C6: the tonic index is the lowest index at which the profile attains its
\* maximum, and the key is the note of the table C, C#, D, D#, E, F, F#, G,
\* G#, A, A#, B at that index followed by " Major" or " Minor".
C6_TonicIsFirstMaximum ==
    key_pc = "done" =>
        /\ key_index \in PitchClasses
        /\ \A j \in PitchClasses : chroma_avg[j] <= chroma_avg[key_index]
        /\ \A j \in PitchClasses :
               j < key_index => chroma_avg[j] < chroma_avg[key_index]
        /\ detected_key \in { C6_Table[key_index + 1] \o " Major",
                              C6_Table[key_index + 1] \o " Minor" }

\* the maximum is attained twice and the first occurrence is not index 0
C6_Witness ==
    /\ key_pc = "done"
    /\ key_index > 0
    /\ chroma_avg[key_index] > 0
    /\ \E j \in PitchClasses :
          j > key_index /\ chroma_avg[j] = chroma_avg[key_index]

C7_Wrap(i) == IF i > 11 THEN i - 12 ELSE i

\* C7: the scale is "Major" exactly when the energy four semitones above
\* the tonic is strictly greater than the energy three semitones above it,
\* "Minor" otherwise (equal energies included); both indices wrap at 12.
C7_MajorIffThirdStronger ==
    key_pc = "done" =>
        LET major == chroma_avg[C7_Wrap(key_index + 4)]
            minor == chroma_avg[C7_Wrap(key_index + 3)]
        IN  /\ scale_type \in {"Major", "Minor"}
            /\ scale_type = "Major" <=> major > minor
            /\ major = minor => scale_type = "Minor"

\* a tonic whose thirds wrap around, labelled Major
C7_Witness ==
    /\ key_pc = "done"
    /\ key_index \in 8..11
    /\ scale_type = "Major"

----------------------------------------------------------------------------
(* Claims about the confidence *)

\* min(0.95, 0.7 + (s / 1000) * 0.25) in units of 1 / 4000
C9_Formula(s) == IF 2800 + s < 3800 THEN 2800 + s ELSE 3800

\* C9 as stated: the confidence field equals the formula value, untransformed.
C9_ConfidenceIsFormula ==
    (conf_done /\ LIBROSA_AVAILABLE) =>
        \A i \in 1..2 : conf_pair[i] = C9_Formula(std_pair[i])

\* C9 as amended: the confidence field is the formula value rounded to two
\* decimals: a multiple of 0.01 (40 units) at most 0.005 (20 units) away.
C9_ConfidenceIsRoundedFormula ==
    (conf_done /\ LIBROSA_AVAILABLE) =>
        \A i \in 1..2 :
            /\ conf_pair[i] % 40 = 0
            /\ conf_pair[i] - C9_Formula(std_pair[i]) <= 20
            /\ C9_Formula(std_pair[i]) - conf_pair[i] <= 20

\* a formula value that is not a multiple of 0.01 has been rounded
C9_Witness ==
    /\ conf_done
    /\ LIBROSA_AVAILABLE
    /\ C9_Formula(std_pair[1]) % 40 # 0
    /\ conf_pair[1] # C9_Formula(std_pair[1])

\* C10: the confidence does not decrease when the standard deviation grows,
\* never exceeds 0.95, is exactly 0.95 from s = 1000 on, and the confidence
\* of every response, real or fallback, lies in [0, 0.95].
C10_MonotoneAndCapped ==
    conf_done =>
        /\ std_pair[1] <= std_pair[2] => conf_pair[1] <= conf_pair[2]
        /\ \A i \in 1..2 :
               /\ conf_pair[i] >= 0
               /\ conf_pair[i] <= 3800
               /\ (LIBROSA_AVAILABLE /\ std_pair[i] >= 1000)
                      => conf_pair[i] = 3800

\* one deviation below the saturation point and one above it
C10_Witness ==
    /\ conf_done
    /\ LIBROSA_AVAILABLE
    /\ std_pair[1] < 1000
    /\ std_pair[2] > 1000
    /\ conf_pair[1] < conf_pair[2]
    /\ conf_pair[2] = 3800

----------------------------------------------------------------------------
(* Claims about the bpm *)

\* C11: the bpm field is an integer at most 0.5 away from the tempo estimate
\* (5 tenths, the tempo being held in tenths).
C11_BpmIsNearestInteger ==
    bpm_done =>
        /\ 10 * bpm_out - tempo_in <= 5
        /\ tempo_in - 10 * bpm_out <= 5

\* a tempo above the half is rounded up, away from its integer part
C11_Witness ==
    /\ bpm_done
    /\ tempo_in = 1207
    /\ bpm_out = 121

----------------------------------------------------------------------------
(* Claims about the feature extractor *)

AllZero(d, keys) == \A j \in 1..Len(keys) : DictGet(d, keys[j]) = 0

\* C12: a guarded family always returns (extract_all_features goes on to the
\* next family), its dictionary has every key of each guarded block, and a
\* block that failed, at whatever point, holds only zero defaults.
C12_GuardedBlocksNeverRaise ==
    /\ step_in.family = "rhythm" =>
           /\ feat_pc = "hp"
           /\ DictKeys(fam_ret) = BeatKeys \o OnsetKeys
           /\ step_in.beat_fail >= 0 => AllZero(fam_ret, BeatKeys)
           /\ step_in.onset_fail >= 0 => AllZero(fam_ret, OnsetKeys)
    /\ step_in.family = "hp" =>
           /\ feat_pc = "mel"
           /\ DictKeys(fam_ret) = HarmonicKeys
           /\ step_in.hp_fail >= 0 => AllZero(fam_ret, HarmonicKeys)
    /\ (step_in.family = "tempogram" /\ feat_pc = "count") =>
           /\ DictKeys(fam_ret) = TempogramKeys
           /\ step_in.tg_fail >= 0 => AllZero(fam_ret, TempogramKeys)
    /\ step_in.family = "tempogram" => feat_pc \in {"count", "returned"}

\* beat tracking of a sounding waveform fails after tempo and beat_count were
\* assigned, and both are back at zero
C12_Witness ==
    /\ step_in.family = "rhythm"
    /\ ~wave.silent
    /\ step_in.nbeats = 2
    /\ step_in.beat_fail = 2
    /\ step_in.onset_fail = -1
    /\ DictGet(fam_ret, "tempo") = 0
    /\ DictGet(fam_ret, "beat_count") = 0
    /\ DictGet(fam_ret, "onset_count") = step_in.nonsets

\* C13: every vector extract_all_features returns has the keys of the first
\* vector it returned, in the same order.
C13_SchemaStability ==
    (feat_out.kind = "return" /\ feat_first # NoFirst) =>
        DictKeys(feat_out.value) = feat_first.keys

\* a second file of another length and sample rate, with fewer than two
\* beats and a caught tempogram failure
C13_Witness ==
    /\ feat_files = 2
    /\ feat_out.kind = "return"
    /\ feat_first # NoFirst
    /\ wave.sr # feat_first.sr
    /\ wave.n # feat_first.n
    /\ DictGet(feat_out.value, "beat_count") = 1
    /\ step_in.tg_fail = 3

\* C14: no family overwrites a key of the metadata or of an earlier family
\* (the dictionary grows by each family's key count), so the count stored in
\* total_features_extracted is the sum of the nine families' key counts.
C14_FamiliesDisjoint ==
    /\ feat_pc \notin {"load", "raised", "returned"} =>
           /\ Len(features) = 2 + fam_total
           /\ features[1] = Item("file_path", feat_files)
           /\ features[2] = Item("extraction_params", wave.sr)
    /\ feat_out.kind = "return" =>
           /\ DictGet(feat_out.value, "total_features_extracted") = fam_total
           /\ Len(feat_out.value) = 3 + fam_total
           /\ feat_out.value[1] = Item("file_path", feat_files)
           /\ feat_out.value[2] = Item("extraction_params", wave.sr)

\* a returned vector whose count is the nine families' total
C14_Witness ==
    /\ feat_out.kind = "return"
    /\ fam_total > 0
    /\ fam_total = Len(extract_basic_properties(wave))
                   + Len(extract_spectral_features(wave))
                   + Len(extract_mfcc_features(wave))
                   + Len(extract_chroma_features(wave))
                   + Len(extract_tonnetz_features(wave))
                   + Len(BeatKeys) + Len(OnsetKeys)
                   + Len(HarmonicKeys)
                   + Len(extract_mel_features(wave))
                   + Len(TempogramKeys)
    /\ DictGet(feat_out.value, "total_features_extracted") = fam_total

\* C15: a failure of a family without a try block ends extract_all_features
\* with the exception and without any vector.
C15_UnguardedFailurePropagates ==
    /\ step_in.failed =>
           /\ feat_pc = "raised"
           /\ feat_out = [kind |-> "raise", value |-> <<>>]
    /\ feat_pc = "raised" => feat_out.kind = "raise"
    /\ feat_out.kind = "return" => ~step_in.failed

\* the MFCC family fails after basic and spectral succeeded
C15_Witness ==
    /\ step_in.family = "mfcc"
    /\ step_in.failed
    /\ feat_pc = "raised"
    /\ feat_out.kind = "raise"
    /\ HasKey(features, "spectral_rolloff_mean")

----------------------------------------------------------------------------
(* Claims about the experiment *)

\* the folder a path was listed in
FolderOf(file_path) ==
    IF \E j \in 1..Len(files_dict.good) : files_dict.good[j] = file_path
    THEN "good" ELSE "bad"

\* the paths of both lists, 'good' first, that did not fail
Succeeded ==
    SelectSeq(files_dict.good \o files_dict.bad,
              LAMBDA f : f \notin batch_failed)

\* C16: a failing file adds neither a row nor a label and the files after it
\* are still processed: the rows are those of the files that succeeded, in
\* the order of the lists, there are as many labels as rows, and label i is
\* the folder of the file of row i.
C16_FailingFilesAreSkipped ==
    /\ Len(all_features) = Len(all_labels)
    /\ batch_pc = "returned" =>
           /\ Len(batch_out.df) = Len(batch_out.labels)
           /\ Len(batch_out.df) = Len(Succeeded)
           /\ \A i \in 1..Len(batch_out.df) :
                  /\ batch_out.df[i].file = Succeeded[i]
                  /\ batch_out.labels[i] = FolderOf(batch_out.df[i].file)

\* the first good file and the first bad file fail, later files of both
\* folders are in the table
C16_Witness ==
    /\ batch_pc = "returned"
    /\ Len(files_dict.good) = 2
    /\ Len(files_dict.bad) = 2
    /\ batch_failed = {1, 3}
    /\ batch_out.labels = <<"good", "bad">>
    /\ batch_out.df = <<[file |-> 2], [file |-> 4]>>

IsErrorEntry(entry) == DictKeys(entry) = <<"error">>

MetricKeys == DictKeys(MetricRecord)

IsMetricEntry(entry) ==
    /\ ~HasKey(entry, "error")
    /\ \A j \in 1..Len(MetricKeys) : HasKey(entry, MetricKeys[j])

\* C17: the returned results have one entry per configured model, in the
\* order of the models; an entry is either only {error} or a complete metric
\* record, and a model whose try block failed has the error entry, while the
\* loop goes on to the models after it.
C17_OneEntryPerModel ==
    /\ train_pc = "model" =>
           /\ DictKeys(results) = SubSeq(models, 1, model_i - 1)
           /\ train_in.fail_at \notin {"none"} =>
                  IsErrorEntry(DictGet(results, train_in.model))
           /\ (train_in.model # "" /\ train_in.fail_at = "none") =>
                  IsMetricEntry(DictGet(results, train_in.model))
    /\ train_pc \in {"save", "saved"} =>
           /\ DictKeys(results) = models
           /\ \A j \in 1..Len(results) :
                  IsErrorEntry(results[j].v) \/ IsMetricEntry(results[j].v)

\* the first model fails in its importance step, after its record was
\* stored, and the last model is trained all the same
C17_Witness ==
    /\ train_pc = "save"
    /\ IsErrorEntry(DictGet(results, "XGBoost"))
    /\ DictGet(DictGet(results, "XGBoost"), "error") = "Error in importance"
    /\ IsErrorEntry(DictGet(results, "RandomForest"))
    /\ IsMetricEntry(DictGet(results, "LightGBM"))
    /\ IsMetricEntry(DictGet(results, "SVM"))

NameOf(stem) == stem \o "_results_" \o ToString(timestamp) \o ".json"

NotError == { j \in 1..Len(results) : ~HasKey(results[j].v, "error") }

\* C18: a call of save_results that returns has written the main file and,
\* for exactly the models without an error entry, one model file; all of them
\* carry the timestamp of the call and lie in the experiment's root folder.
C18_FilesOfOneCall ==
    train_pc = "saved" =>
        /\ [folder |-> beats_folder, name |-> NameOf("ml_experiment")] \in disk
        /\ \A j \in 1..Len(results) :
               ([folder |-> beats_folder,
                 name |-> NameOf(Lower(results[j].k))] \in disk)
                   <=> (j \in NotError)
        /\ Cardinality(disk) = 1 + Cardinality(NotError)
        /\ \A f \in disk : f.folder = beats_folder

\* a call in the second second, with one failed model and four files for the
\* others, in a root folder other than beats
C18_Witness ==
    /\ train_pc = "saved"
    /\ beats_folder = "mydata"
    /\ timestamp = 2
    /\ Cardinality(NotError) = 4
    /\ HasKey(DictGet(results, "LightGBM"), "error")
    /\ [folder |-> "mydata", name |-> "svm_results_2.json"] \in disk
    /\ [folder |-> "mydata", name |-> "ml_experiment_results_2.json"] \in disk
    /\ Cardinality(disk) = 5

\* C19: the feature_importance field of a model with importances has every
\* column once, with its own score, in non-increasing order of score; a model
\* without importances has no such field.
C19_ImportanceRanking ==
    rank_done =>
        IF HasImportances(rank_model)
        THEN /\ HasKey(rank_record, "feature_importance")
             /\ LET ranking == DictGet(rank_record, "feature_importance")
                IN  /\ Len(ranking) = Len(ColumnNames)
                    /\ \A c \in 1..Len(ColumnNames) :
                           \E r \in 1..Len(ranking) :
                               ranking[r] = Item(ColumnNames[c], importance[c])
                    /\ \A r \in 1..(Len(ranking) - 1) :
                           ranking[r].v >= ranking[r + 1].v
        ELSE ~HasKey(rank_record, "feature_importance")

\* the last column has the highest score and comes first; the two others tie
C19_Witness ==
    /\ rank_done
    /\ rank_model = "RandomForest"
    /\ importance = <<1, 1, 2>>
    /\ DictKeys(DictGet(rank_record, "feature_importance"))
           = <<ColumnNames[3], ColumnNames[1], ColumnNames[2]>>

----------------------------------------------------------------------------
(* Claims about the runner *)

ArgumentFolder == IF argv = <<>> THEN "beats" ELSE argv[1]

\* C20 as stated: the folder checked, the folder of the experiment and the
\* folder of the result files are the folder given as argument, beats when
\* there is no argument.
C20_WorksOnArgumentFolder ==
    /\ cli_checked # NoFolder => cli_checked = ArgumentFolder
    /\ cli_run # NoFolder => cli_run = ArgumentFolder
    /\ cli_written \subseteq {ArgumentFolder}

\* C20, amended: whatever the arguments, the folder checked, the folder of
\* the experiment and the folder of the result files are all beats.
C20_AlwaysWorksOnBeats ==
    /\ cli_checked # NoFolder => cli_checked = "beats"
    /\ cli_run # NoFolder => cli_run = cli_checked
    /\ cli_written \subseteq {cli_checked}

\* called with mydata, which holds a complete data set, the runner writes its
\* results into beats
C20_Witness ==
    /\ argv = <<"mydata">>
    /\ Samples(fs["mydata"])
    /\ cli_pc = "exited"
    /\ cli_checked = "beats"
    /\ cli_run = "beats"
    /\ exp_outcome = "results"
    /\ cli_written = {"beats"}

\* one of the seven expected folders is missing
StructureMissing(l) ==
    \/ ~l.root \/ ~l.train \/ ~l.test
    \/ l.train_sub # Labels \/ l.test_sub # Labels

\* C21 as stated: when the root folder, train/, test/ or one of the four
\* good/ and bad/ subfolders is missing, the runner exits with a non-zero
\* status and the experiment is not started.
C21_ExitsWhenAnyFolderMissing ==
    (cli_pc = "exited" /\ StructureMissing(fs[cli_checked]))
        => (exit_status > 0 /\ cli_run = NoFolder)

\* C21, amended: the runner exits with status 1, the experiment not started,
\* exactly when the root folder, train/ or test/ is missing; with these three
\* in place the experiment is started and the exit status is 0, whether or
\* not the good/ and bad/ subfolders exist.
C21_ExitsWhenTopFolderMissing ==
    cli_pc = "exited" =>
        LET l == fs[cli_checked]
        IN  IF ~l.root \/ ~l.train \/ ~l.test
            THEN exit_status = 1 /\ cli_run = NoFolder /\ exp_outcome = "none"
            ELSE exit_status = 0 /\ cli_run # NoFolder /\ exp_outcome # "none"

\* beats/ and beats/train/ exist, beats/test/ does not: exit status 1 and no
\* experiment
C21_Witness ==
    /\ cli_pc = "exited"
    /\ fs[cli_checked].root
    /\ fs[cli_checked].train
    /\ ~fs[cli_checked].test
    /\ exit_status = 1
    /\ cli_run = NoFolder

\* C28: once the root, train/ and test/ checks have passed the exit status
\* is never non-zero: the runner ends with status 0 whether the experiment
\* returned results, returned an empty result or raised.
C28_ExitZeroAfterChecks ==
    (/\ cli_pc \in {"run", "exited"}
     /\ fs[cli_checked].root /\ fs[cli_checked].train /\ fs[cli_checked].test)
        => /\ exit_status \in {-1, 0}
           /\ cli_pc = "exited" => exit_status = 0

\* the experiment raised after the checks had passed and the exit status is 0
C28_Witness ==
    /\ cli_pc = "exited"
    /\ cli_run = "beats"
    /\ exp_outcome = "raised"
    /\ exit_status = 0

\* ---------------------------------------------------------------------
\* Claims about run_experiment
\* ---------------------------------------------------------------------

\* C27 as stated: a run on a missing root folder, or one that extracts no
\* training sample or no test sample, returns an empty result, trains no
\* model and writes no result file; result files are written only by runs
\* that reach model training.
C27_EmptyRunsReturnEmpty ==
    cli_pc = "returned" =>
        LET l == fs[cli_run]
        IN  /\ (~l.root \/ l.train_labels = {} \/ l.test_labels = {})
                  => /\ exp_outcome = "empty"
                     /\ ~exp_trained
                     /\ cli_written = {}
            /\ cli_written # {} => exp_trained

\* ---------------------------------------------------------------------
\* Claims about prepare_data
\* ---------------------------------------------------------------------

\* the files of the four folders that the globs of find_audio_files match
Discovered ==
    { f \in UNION { { d.files[i] : i \in DOMAIN d.files } :
                      d \in { folders[st][lb] :
                                st \in { t \in {"train", "test"} :
                                           folders[t].exists },
                                lb \in Labels } } :
        \E e \in DOMAIN audio_extensions : audio_extensions[e] = f.ext }

ExtIndex(ext) == CHOOSE e \in DOMAIN audio_extensions : audio_extensions[e] = ext

\* f is extracted before g: training before test, good before bad, then the
\* order of discovery (format by format, each in listing order)
Before(f, g) ==
    \/ f.dir = "train" /\ g.dir = "test"
    \/ f.dir = g.dir /\ f.label = "good" /\ g.label = "bad"
    \/ f.dir = g.dir /\ f.label = g.label /\ ExtIndex(f.ext) < ExtIndex(g.ext)
    \/ f.dir = g.dir /\ f.label = g.label /\ f.ext = g.ext /\ f.n < g.n

\* C23: the files are extracted in a fixed order (the training set before the
\* test set, good before bad, in discovery order) and every discovered file is
\* attempted exactly once: no file is attempted twice, failed or not, and when
\* prepare_data is over every discovered file has been attempted
C23_EachFileOnceInOrder ==
    /\ \A i \in DOMAIN attempts : attempts[i] \in Discovered
    /\ \A i, j \in DOMAIN attempts : i < j => Before(attempts[i], attempts[j])
    /\ batch_failed \subseteq { attempts[i] : i \in DOMAIN attempts }
    /\ prep_pc = "done" =>
          \A f \in Discovered : \E i \in DOMAIN attempts : attempts[i] = f

\* all four folders hold audio files, a training file and a test file failed,
\* and the eight files were attempted
C23_Witness ==
    /\ prep_pc = "done"
    /\ Len(attempts) = 8
    /\ \E f, g \in batch_failed : f.dir = "train" /\ g.dir = "test"
    /\ Len(tables.train.df) = 3
    /\ Len(tables.test.df) = 3

====
